---- MODULE Spec2Model ----
(***************************************************************************)
(* Transaction-submission core of the XRPL EVM bot (bot.js): getGasPrice   *)
(* and withRetry.  One behaviour is one call of withRetry; every await of  *)
(* the JavaScript is a suspension point, and one action is the code that   *)
(* runs between two suspension points.                                     *)
(***************************************************************************)
EXTENDS Integers, Sequences, FiniteSets, TLC

(* ------------------------------ bounds -------------------------------- *)

\* maxRetries is drawn from 0..MaxRetriesBound (the callers pass the default 3)
MaxRetriesBound == 3

\* activityStats.totalTransactions when withRetry is called: 0..MaxPriorTx
MaxPriorTx == 1

\* the largest fee value (wei) the network reports in the model
MaxFee == 3

\* TLC integers are 32 bits wide and the program's are BigInt: the
\* gwei-denominated defaults are kept in a reduced unit (wei per gwei)
Gwei == 1000

\* amounts in smallest units are drawn from 0..MaxAmount, next to the larger
\* values each computation names
MaxAmount == 12

\* the clock of the persisting version runs up to this many half-days
MaxClock == 6

\* the passes over the wallets that are counted
MaxCycles == 2

(* --------------------------- program constants ------------------------ *)

\* withRetry(func, maxRetries = 3, initialDelayMs = 1000, ...)
DefaultInitialDelayMs == 1000

\* a fee field that is null or absent in the provider's FeeData
Null == -1

\* ethers.parseUnits("1", "gwei"), the fallback base fee
DefaultBaseFee == 1 * Gwei

\* ethers.parseUnits("20", "gwei"), the fallback legacy gas price
DefaultGasPrice == 20 * Gwei

DelayChoices == {DefaultInitialDelayMs, 2 * DefaultInitialDelayMs}

(* ------------------------------ getGasPrice --------------------------- *)

\* what provider.getFeeData() may resolve to
FeeAmounts == {Null, 0, 1, MaxFee}

FeeDataSet ==
    [maxFeePerGas : FeeAmounts, maxPriorityFeePerGas : FeeAmounts,
     lastBaseFeePerGas : FeeAmounts, gasPrice : FeeAmounts]

\* JavaScript truthiness of a BigInt-or-null value: null and 0n are falsy
Truthy(v) == v # Null /\ v # 0

\* v ?? d, the slip that keeps a zero fee instead of the default
OrDefaultNullish(v, d) == IF v # Null THEN v ELSE d

\* v || d
OrDefault(v, d) == IF Truthy(v) THEN v ELSE d

\* BigInt division truncates toward zero
BigIntDiv(a, b) == IF a >= 0 THEN a \div b ELSE -((-a) \div b)

\* let buffer = 5.0 + (retryAttempt * 1.0)
Buffer(retryAttempt) == 5 + retryAttempt * 1

\* BigInt(Math.round(buffer * 100)): buffer is a whole number, so exact
RoundedBuffer100(retryAttempt) == Buffer(retryAttempt) * 100

\* division before multiplication: the fraction of value / 100 is lost
BufferedDivideFirst(value, retryAttempt) ==
    (value \div 100) * (Buffer(retryAttempt) * 100)

\* (value * BigInt(Math.round(buffer * 100))) / BigInt(100)
Buffered(value, retryAttempt) ==
    BigIntDiv(value * RoundedBuffer100(retryAttempt), 100)

NoQuote == [pending |-> TRUE]

NoFeeData ==
    [maxFeePerGas |-> Null, maxPriorityFeePerGas |-> Null,
     lastBaseFeePerGas |-> Null, gasPrice |-> Null]

\* a quote that carries the legacy price next to the EIP-1559 pair
getGasPriceBothShapes(feeData, retryAttempt) ==
    [maxFeePerGas |-> 1, maxPriorityFeePerGas |-> 1, gasPrice |-> 1]

getGasPrice(feeData, retryAttempt) ==
    IF Truthy(feeData.maxFeePerGas) /\ Truthy(feeData.maxPriorityFeePerGas)
    THEN LET maxPriorityFeePerGas ==
                 Buffered(feeData.maxPriorityFeePerGas, retryAttempt)
             baseFee == OrDefault(feeData.lastBaseFeePerGas, DefaultBaseFee)
             maxFeePerGas ==
                 Buffered(baseFee, retryAttempt) + maxPriorityFeePerGas
         IN  [maxFeePerGas |-> maxFeePerGas,
              maxPriorityFeePerGas |-> maxPriorityFeePerGas]
    ELSE LET gasPrice == OrDefault(feeData.gasPrice, DefaultGasPrice)
         IN  [gasPrice |-> Buffered(gasPrice, retryAttempt)]

(* ------------------------------- withRetry ---------------------------- *)

VARIABLES
    pc,                 \* position of the withRetry call
    i,                  \* the loop variable: 0-based attempt index
    maxRetries,         \* parameter
    initialDelayMs,     \* parameter
    gasOptions,         \* const gasOptions of the running attempt
    tx,                 \* let tx of the running attempt
    totalTransactions,  \* activityStats.totalTransactions
    txAtCall,           \* totalTransactions when the call started
    result,             \* the value the call returned
    error,              \* the error caught last (thrown when pc = "threw")
    delays,             \* the arguments of the delay() calls, in order
    attempts,           \* what happened in each attempt, in order
    chain               \* status of each transaction the call sent, by hash

retryVars == <<pc, i, maxRetries, initialDelayMs, gasOptions, tx,
               totalTransactions, txAtCall, result, error, delays, attempts,
               chain>>

\* checkAndRebalance
VARIABLES
    rbPc,               \* position of the checkAndRebalance call
    walletBalances,     \* const walletBalances, in ticks of 0.0001 token
    readFailed,         \* the symbols whose balance read threw
    rbIdx,              \* position of the for loop that awaits a swap
    rbSwaps,            \* the withRetry calls started by this call, in order
    rebalances          \* activityStats.rebalances

rbVars == <<rbPc, walletBalances, readFailed, rbIdx, rbSwaps, rebalances>>

\* a getGasPrice call on its own
VARIABLES
    feeDataIn           \* what provider.getFeeData() resolves to in that call

\* startRandomLoop
VARIABLES
    schedPc,            \* position of the startRandomLoop call
    walletIdx,          \* position of the for loop over wallets
    actionSuccessful,   \* let actionSuccessful
    retriesLeft,        \* let retriesLeft
    action,             \* const action of the running outer attempt
    failedAction,       \* the action of the outer attempt that failed last
    outerAttempts,      \* entries of the try block for the current wallet
    stats,              \* the per-category counters of activityStats
    alerts,             \* the sendAlert calls, in order
    exhausted,          \* the wallets whose outer retries ran out
    wallets,            \* let wallets: the wallets the for loop visits
    stateSaves          \* the saveState() calls made so far

schedVars == <<schedPc, walletIdx, actionSuccessful, retriesLeft, action,
               failedAction, outerAttempts, stats, alerts, exhausted,
               wallets, stateSaves>>

\* a computation on its own: a selection, a slippage floor
VARIABLES
    calcPc,             \* which computation runs, and whether it has returned
    calcIn,             \* its arguments
    calcOut,            \* the amounts it returned, one per call
    selected            \* the category a selection returned

calcVars == <<calcPc, calcIn, calcOut, selected>>

\* one invocation of an action executor, the closure of a withRetry call
VARIABLES
    exPc,               \* position of the invocation
    executor,           \* which executor runs
    exArgs,             \* its arguments and configuration
    exBalance,          \* the token (or LP) balance it read
    exXrp,              \* what its check of XRP for value and gas found
    exAmount,           \* the raw amount it approves and moves
    exAllowance,        \* the router's allowance it read
    exLoop,             \* let i of the loop over the addresses
    submitted,          \* the transactions it sent to the network, in order
    exConfirmed,        \* the positions in submitted it saw confirmed
    exError             \* the error it threw

exVars == <<exPc, executor, exArgs, exBalance, exXrp, exAmount, exAllowance,
            exLoop, submitted, exConfirmed, exError>>

\* the 24-hour window of the version that persists its state
VARIABLES
    winPc,              \* position of the process: load, menu, loop
    now,                \* Date.now(), in units of twelve hours
    startTime,          \* activityStats.startTime
    stateFile,          \* the content of STATE_FILE
    cycles              \* the passes over the wallets the loop has made

winVars == <<winPc, now, startTime, stateFile, cycles>>

sideVars == <<feeDataIn, calcVars, exVars, winVars>>

outerVars == <<rbVars, sideVars, schedVars>>

vars == <<retryVars, outerVars>>

\* the fee data inside startRandomLoop, where up to six withRetry calls
\* follow one another: one EIP-1559 answer and one legacy answer
SchedFeeData ==
    {feeData \in FeeDataSet :
        /\ feeData.maxFeePerGas \in {Null, 1}
        /\ feeData.maxPriorityFeePerGas = feeData.maxFeePerGas
        /\ feeData.lastBaseFeePerGas = Null
        /\ feeData.gasPrice = 1}

\* what provider.getFeeData() resolves to: every answer for a call on its
\* own, the two answers above inside startRandomLoop
\* the for loop has more than one wallet to visit
ManyWallets == Len(wallets) > 1

\* the provider's answer while a cycle over several wallets runs
CycleFeeData == {feeData \in SchedFeeData : feeData.maxFeePerGas = 1}

ProviderFeeData ==
    IF schedPc = "idle" THEN FeeDataSet
    ELSE IF ManyWallets THEN CycleFeeData
    ELSE SchedFeeData

\* Object.keys(TOKENS): the order of the donor scan
TokenOrder == <<"WXRP", "RISE", "RIBBIT">>

\* Object.keys(REBALANCE_THRESHOLDS)
ThresholdOrder == <<"XRP", "RISE", "RIBBIT">>

Symbols == {"XRP", "WXRP", "RISE", "RIBBIT"}

NoBalances == [s \in Symbols |-> 0]

NoHash == 0

NullTx == [kind |-> "null", hash |-> NoHash]

Handle(h) == [kind |-> "handle", hash |-> h]

NoResult == [kind |-> "none", status |-> Null, hash |-> NoHash]

NullResult == [kind |-> "null", status |-> Null, hash |-> NoHash]

Receipt(status, h) == [kind |-> "receipt", status |-> status, hash |-> h]

NoError == [kind |-> "none", at |-> Null]

Err(kind, n) == [kind |-> kind, at |-> n]

\* errors the closure throws: before sending (insufficient balance, zero
\* amount) or from the send itself
FuncErrors == {"PreconditionFailure", "RpcTransportError"}

NewAttempt(n) ==
    [gasIndex |-> n, gas |-> "pending", func |-> "none", conf |-> "none",
     hash |-> NoHash, error |-> "none", timer |-> "none"]

SetLast(seq, entry) == [seq EXCEPT ![Len(seq)] = entry]

Last(seq) == seq[Len(seq)]

\* the part_000 version: no check of the returned value
ValidTxUnchecked(t) == TRUE

\* !(!tx || typeof tx.hash === 'undefined')
ValidTx(t) == t.kind # "null" /\ t.hash # NoHash

\* counting one transaction per logical call instead of one per send
CountSendOncePerCall(total, atCall) ==
    IF total = atCall THEN total + 1 ELSE total

\* a withRetry that does not count what it sends
CountSendNever(total, atCall) == total

\* activityStats.totalTransactions++
CountSend(total, atCall) == total + 1

\* i < maxRetries, the slip that backs off after the last attempt too
HasAttemptsLeftOffByOne(n, max) == n < max

\* if (i < maxRetries - 1)
HasAttemptsLeft(n, max) == n < max - 1

\* a constant backoff: the attempt index left out
BackoffMsConstant(ms, n) == ms

\* delay(initialDelayMs * (i + 1))
BackoffMs(ms, n) == ms * (n + 1)

\* accepting every receipt that is present
ReceiptSucceededAnyStatus(receipt) == receipt.kind = "receipt"

\* receipt.status === "0x1": a strict comparison that no receipt satisfies
ReceiptSucceededNever(receipt) == receipt.kind = "receipt" /\ receipt.status = Null

\* receipt && receipt.status === 1
ReceiptSucceeded(receipt) == receipt.kind = "receipt" /\ receipt.status = 1

\* the error of the else-if / else branches after the race
ReceiptError(receipt) ==
    IF receipt.kind = "receipt" /\ receipt.status = 0
    THEN "OnChainFailure"
    ELSE "DidNotConfirm"

\* a loop that tests its condition after the body
LoopHeadBodyFirst(n) ==
    /\ i' = n
    /\ IF n < maxRetries \/ n = 0
       THEN /\ pc' = "getFeeData"
            /\ tx' = NullTx
            /\ attempts' = Append(attempts, NewAttempt(n))
            /\ UNCHANGED result
       ELSE /\ pc' = "returned"
            /\ result' = NullResult
            /\ UNCHANGED <<tx, attempts>>

\* the head of the for loop, entered with loop variable n
LoopHead(n) ==
    /\ i' = n
    /\ IF n < maxRetries
       THEN /\ pc' = "getFeeData"
            /\ tx' = NullTx
            /\ attempts' = Append(attempts, NewAttempt(n))
            /\ UNCHANGED result
       ELSE /\ pc' = "returned"
            /\ result' = NullResult
            /\ UNCHANGED <<tx, attempts>>

\* the catch block, entered with the error e; entry is the attempt's record
Catch(e, entry) ==
    /\ error' = e
    /\ attempts' = SetLast(attempts, [entry EXCEPT !.error = e.kind])
    /\ gasOptions' = NoQuote
    /\ IF HasAttemptsLeft(i, maxRetries)
       THEN /\ pc' = "delay"
            /\ delays' = Append(delays, BackoffMs(initialDelayMs, i))
       ELSE /\ pc' = "threw"
            /\ UNCHANGED delays

\* no checkAndRebalance call is running
RbIdle ==
    /\ rbPc = "idle"
    /\ walletBalances = NoBalances
    /\ readFailed = {}
    /\ rbIdx = 0
    /\ rbSwaps = << >>
    /\ rebalances = 0

\* activityStats: the counters of the action categories
NoStats ==
    [swaps |-> 0, addsLiquidity |-> 0, removesLiquidity |-> 0,
     sendsAndReceives |-> 0, randomSends |-> 0, customContractCalls |-> 0]

\* startRandomLoop is not running
SchedIdle ==
    /\ schedPc = "idle"
    /\ walletIdx = 0
    /\ actionSuccessful = FALSE
    /\ retriesLeft = 0
    /\ action = "none"
    /\ failedAction = "none"
    /\ outerAttempts = 0
    /\ stats = NoStats
    /\ alerts = << >>
    /\ exhausted = {}
    /\ wallets = << >>
    /\ stateSaves = 0

NoInput == [x |-> 0, y |-> 0]

NoArgs == [amount |-> 0, count |-> 0, percentage |-> 0, inXRP |-> FALSE]

\* no executor is running on its own
ExIdle ==
    /\ exPc = "idle"
    /\ executor = "none"
    /\ exArgs = NoArgs
    /\ exBalance = Null
    /\ exXrp = "unread"
    /\ exAmount = 0
    /\ exAllowance = Null
    /\ exLoop = 0
    /\ submitted = << >>
    /\ exConfirmed = {}
    /\ exError = "none"

\* no computation on its own is running
CalcIdle ==
    /\ calcPc = "idle"
    /\ calcIn = NoInput
    /\ calcOut = << >>
    /\ selected = "none"

NoFile == [kind |-> "none", startTime |-> 0]

\* the window of the persisting version is not looked at
WinIdle ==
    /\ winPc = "idle"
    /\ now = 0
    /\ startTime = 0
    /\ stateFile = NoFile
    /\ cycles = 0

\* none of them is running
SideIdle == CalcIdle /\ ExIdle /\ WinIdle

Init ==
    /\ pc = "call"
    /\ i = 0
    /\ maxRetries \in 0..MaxRetriesBound
    /\ initialDelayMs \in DelayChoices
    /\ gasOptions = NoQuote
    /\ tx = NullTx
    /\ totalTransactions \in 0..MaxPriorTx
    /\ txAtCall = totalTransactions
    /\ result = NoResult
    /\ error = NoError
    /\ delays = << >>
    /\ attempts = << >>
    /\ chain = << >>
    /\ RbIdle
    /\ feeDataIn = NoFeeData
    /\ SchedIdle
    /\ SideIdle

\* withRetry is entered: the first loop test and the call of getGasPrice(0)
Call ==
    /\ UNCHANGED outerVars
    /\ pc = "call"
    /\ LoopHead(0)
    /\ UNCHANGED <<maxRetries, initialDelayMs, gasOptions, totalTransactions,
                   txAtCall, error, delays, chain>>

\* provider.getFeeData() resolves: getGasPrice returns the quote and the
\* closure is invoked with it
GetFeeDataResolves ==
    /\ UNCHANGED outerVars
    /\ pc = "getFeeData"
    /\ \E feeData \in ProviderFeeData : gasOptions' = getGasPrice(feeData, i)
    /\ attempts' = SetLast(attempts, [Last(attempts) EXCEPT !.gas = "ok"])
    /\ pc' = "func"
    /\ UNCHANGED <<i, maxRetries, initialDelayMs, tx, totalTransactions,
                   txAtCall, result, error, delays, chain>>

\* a failed fee read answered with a quote built from the default price
GetFeeDataRejectsFallback ==
    /\ UNCHANGED outerVars
    /\ pc = "getFeeData"
    /\ gasOptions' = [gasPrice |-> Buffered(DefaultGasPrice, i)]
    /\ attempts' = SetLast(attempts, [Last(attempts) EXCEPT !.gas = "fail"])
    /\ pc' = "func"
    /\ UNCHANGED <<i, maxRetries, initialDelayMs, tx, totalTransactions,
                   txAtCall, result, error, delays, chain>>

\* provider.getFeeData() rejects: getGasPrice rejects, the catch block runs
GetFeeDataRejects ==
    /\ UNCHANGED outerVars
    /\ pc = "getFeeData"
    /\ Catch(Err("FeeDataError", i), [Last(attempts) EXCEPT !.gas = "fail"])
    /\ UNCHANGED <<i, maxRetries, initialDelayMs, tx, totalTransactions,
                   txAtCall, result, chain>>

\* what the closure may return; in a cycle over several wallets a handle
ClosureResults(h) ==
    IF ManyWallets THEN {Handle(h)} ELSE {Handle(h), NullTx}

\* what the closure may throw; in a cycle over several wallets the error
\* of a failed precondition
ClosureErrors ==
    IF ManyWallets THEN {"PreconditionFailure"} ELSE FuncErrors

\* what tx.wait() may resolve with; in a cycle over several wallets a
\* receipt
ConfirmationResults(h) ==
    IF ManyWallets THEN {Receipt(1, h), Receipt(0, h)}
    ELSE {Receipt(1, h), Receipt(0, h), NullResult}

\* the closure resolves, with a transaction response or with null/undefined
FuncReturns ==
    /\ UNCHANGED outerVars
    /\ pc = "func"
    /\ \E t \in ClosureResults(Len(chain) + 1) :
         /\ tx' = t
         /\ LET entry == [Last(attempts) EXCEPT !.func = t.kind,
                                                !.hash = t.hash]
            IN  IF ValidTx(t)
                THEN /\ totalTransactions' =
                            CountSend(totalTransactions, txAtCall)
                     /\ attempts' = SetLast(attempts,
                                            [entry EXCEPT !.timer = "armed"])
                     /\ pc' = "race"
                     /\ UNCHANGED <<gasOptions, error, delays>>
                ELSE /\ Catch(Err("NoValidTransactionObject", i), entry)
                     /\ UNCHANGED totalTransactions
         /\ chain' = IF t.kind = "handle" THEN Append(chain, "pending")
                     ELSE chain
    /\ UNCHANGED <<i, maxRetries, initialDelayMs, txAtCall, result>>

\* the closure rejects
FuncThrows ==
    /\ UNCHANGED outerVars
    /\ pc = "func"
    /\ \E kind \in ClosureErrors :
         Catch(Err(kind, i), [Last(attempts) EXCEPT !.func = kind])
    /\ UNCHANGED <<i, maxRetries, initialDelayMs, tx, totalTransactions,
                   txAtCall, result, chain>>

\* tx.wait() wins the race and resolves with a receipt or with null
WaitResolves ==
    /\ UNCHANGED outerVars
    /\ pc = "race"
    /\ \E receipt \in ConfirmationResults(tx.hash) :
         LET conf == IF receipt.kind # "receipt" THEN "noreceipt"
                     ELSE IF receipt.status = 1 THEN "success"
                     ELSE "reverted"
             entry == [Last(attempts) EXCEPT !.conf = conf]
         IN  /\ chain' = IF receipt.kind = "receipt"
                         THEN [chain EXCEPT ![tx.hash] = conf]
                         ELSE chain
             /\ IF ReceiptSucceeded(receipt)
                THEN /\ result' = receipt
                     /\ pc' = "returned"
                     /\ attempts' = SetLast(attempts, entry)
                     /\ gasOptions' = NoQuote
                     /\ UNCHANGED <<error, delays>>
                ELSE /\ Catch(Err(ReceiptError(receipt), i), entry)
                     /\ UNCHANGED result
    /\ UNCHANGED <<i, maxRetries, initialDelayMs, tx, totalTransactions,
                   txAtCall>>

\* tx.wait() wins the race and rejects
WaitRejects ==
    /\ UNCHANGED outerVars
    /\ pc = "race"
    /\ Catch(Err("WaitRejected", i), [Last(attempts) EXCEPT !.conf = "rejected"])
    /\ UNCHANGED <<i, maxRetries, initialDelayMs, tx, totalTransactions,
                   txAtCall, result, chain>>

\* a timer that cancels the transaction it stops waiting for
TimeoutWinsCancels ==
    /\ UNCHANGED outerVars
    /\ pc = "race"
    /\ Catch(Err("ConfirmationTimeout", i),
             [Last(attempts) EXCEPT !.conf = "timeout", !.timer = "fired"])
    /\ chain' = [chain EXCEPT ![tx.hash] = "cancelled"]
    /\ UNCHANGED <<i, maxRetries, initialDelayMs, tx, totalTransactions,
                   txAtCall, result>>

\* the timer wins the race: the transaction stays pending on the chain
TimeoutWins ==
    /\ UNCHANGED outerVars
    /\ pc = "race"
    /\ Catch(Err("ConfirmationTimeout", i),
             [Last(attempts) EXCEPT !.conf = "timeout", !.timer = "fired"])
    /\ UNCHANGED <<i, maxRetries, initialDelayMs, tx, totalTransactions,
                   txAtCall, result, chain>>

\* the backoff sleep ends: i++, the loop test, the next getGasPrice(i)
DelayResolves ==
    /\ UNCHANGED outerVars
    /\ pc = "delay"
    /\ LoopHead(i + 1)
    /\ UNCHANGED <<maxRetries, initialDelayMs, gasOptions, totalTransactions,
                   txAtCall, error, delays, chain>>

\* the chain settles a transaction nobody is waiting for any more
AbandonedSettles ==
    /\ UNCHANGED outerVars
    /\ \E h \in 1..Len(chain) :
         /\ chain[h] = "pending"
         /\ ~(pc = "race" /\ tx.hash = h)
         /\ \E s \in {"success", "reverted"} : chain' = [chain EXCEPT ![h] = s]
    /\ UNCHANGED <<pc, i, maxRetries, initialDelayMs, gasOptions, tx,
                   totalTransactions, txAtCall, result, error, delays,
                   attempts>>

\* a timer that rejects the call when it fires after the race
LateTimerFiresRejects ==
    /\ UNCHANGED outerVars
    /\ \E k \in 1..Len(attempts) :
         /\ attempts[k].timer = "armed"
         /\ attempts[k].conf # "none"
         /\ attempts' = [attempts EXCEPT ![k].timer = "fired"]
    /\ error' = Err("ConfirmationTimeout", i)
    /\ pc' = "threw"
    /\ UNCHANGED <<i, maxRetries, initialDelayMs, gasOptions, tx,
                   totalTransactions, txAtCall, result, delays, chain>>

\* setTimeout fires after tx.wait() settled the race: the reject() of a
\* promise that lost the race is ignored
LateTimerFires ==
    /\ UNCHANGED outerVars
    /\ \E k \in 1..Len(attempts) :
         /\ attempts[k].timer = "armed"
         /\ attempts[k].conf # "none"
         /\ attempts' = [attempts EXCEPT ![k].timer = "fired"]
    /\ UNCHANGED <<pc, i, maxRetries, initialDelayMs, gasOptions, tx,
                   totalTransactions, txAtCall, result, error, delays, chain>>

Next ==
    \/ Call
    \/ GetFeeDataResolves
    \/ GetFeeDataRejects
    \/ FuncReturns
    \/ FuncThrows
    \/ WaitResolves
    \/ WaitRejects
    \/ TimeoutWins
    \/ DelayResolves
    \/ AbandonedSettles

Spec == Init /\ [][Next]_vars

(* -------------------- withRetry and the events that come late -------- *)

\* one withRetry call that makes at least one attempt, with no transaction
\* counted before it
LateInit ==
    /\ Init
    /\ maxRetries \in 1..MaxRetriesBound
    /\ initialDelayMs = DefaultInitialDelayMs
    /\ totalTransactions = 0

LateNext ==
    \/ Next
    \/ LateTimerFires

SpecLate == LateInit /\ [][LateNext]_vars

(* ----------------------- getGasPrice called alone --------------------- *)

\* no withRetry call is running
RetryIdle ==
    /\ maxRetries = 0
    /\ initialDelayMs = DefaultInitialDelayMs
    /\ tx = NullTx
    /\ totalTransactions = 0
    /\ txAtCall = 0
    /\ result = NoResult
    /\ delays = << >>
    /\ attempts = << >>
    /\ chain = << >>

GasInit ==
    /\ pc = "gasCall"
    /\ i \in 0..MaxRetriesBound
    /\ feeDataIn \in FeeDataSet
    /\ gasOptions = NoQuote
    /\ error = NoError
    /\ RetryIdle
    /\ RbIdle
    /\ SchedIdle
    /\ SideIdle

\* a failed fee read answered with a quote built from the default price
GasPriceThrowsFallback ==
    /\ pc = "gasCall"
    /\ pc' = "gasDone"
    /\ gasOptions' = [gasPrice |-> Buffered(DefaultGasPrice, i)]
    /\ error' = Err("FeeDataError", i)
    /\ UNCHANGED <<i, maxRetries, initialDelayMs, tx, totalTransactions,
                   txAtCall, result, delays, attempts, chain, outerVars>>

\* await provider.getFeeData() rejects: getGasPrice(i) rejects with it
GasPriceThrows ==
    /\ pc = "gasCall"
    /\ pc' = "gasThrew"
    /\ error' = Err("FeeDataError", i)
    /\ UNCHANGED <<i, maxRetries, initialDelayMs, gasOptions, tx,
                   totalTransactions, txAtCall, result, delays, attempts,
                   chain, outerVars>>

\* await provider.getFeeData() resolves: getGasPrice(i) returns the quote
GasPriceReturns ==
    /\ pc = "gasCall"
    /\ pc' = "gasDone"
    /\ gasOptions' = getGasPrice(feeDataIn, i)
    /\ UNCHANGED <<i, maxRetries, initialDelayMs, tx, totalTransactions,
                   txAtCall, result, error, delays, attempts, chain,
                   outerVars>>

GasNext ==
    \/ GasPriceReturns
    \/ GasPriceThrows

SpecGas == GasInit /\ [][GasNext]_vars

(* --------------------------- checkAndRebalance ------------------------ *)

\* withRetry(func, maxRetries = 3, ...): no caller passes another value
DefaultMaxRetries == 3

\* REBALANCE_THRESHOLDS, in ticks of 0.0001 token: 0.01, 0.005, 0.005
REBALANCE_THRESHOLDS == [XRP |-> 100, RISE |-> 50, RIBBIT |-> 50]

\* balances a wallet may hold, in ticks: around the threshold and its double
XRPBalances ==
    {0, REBALANCE_THRESHOLDS["XRP"] - 1, REBALANCE_THRESHOLDS["XRP"],
     2 * REBALANCE_THRESHOLDS["XRP"], 2 * REBALANCE_THRESHOLDS["XRP"] + 1}

TokenBalances ==
    {0, 2 * REBALANCE_THRESHOLDS["RISE"], 2 * REBALANCE_THRESHOLDS["XRP"] - 1,
     2 * REBALANCE_THRESHOLDS["XRP"]}

BalanceSet == [s \in Symbols |-> IF s = "XRP" THEN XRPBalances ELSE TokenBalances]

\* the balances inside startRandomLoop: nothing to rebalance, XRP short
\* with donors, and XRP to spare with RISE short
SchedBalances ==
    {[s \in Symbols |-> 2 * REBALANCE_THRESHOLDS["XRP"]],
     [s \in Symbols |-> IF s = "XRP" THEN 0
                        ELSE 2 * REBALANCE_THRESHOLDS["XRP"]],
     [s \in Symbols |-> IF s = "XRP" THEN 2 * REBALANCE_THRESHOLDS["XRP"] + 1
                        ELSE IF s = "RISE" THEN 0
                        ELSE 2 * REBALANCE_THRESHOLDS["XRP"]]}

\* the balances in a cycle over several wallets: nothing to rebalance, and
\* XRP short with donors
CycleBalances ==
    {balances \in SchedBalances :
        balances["RISE"] = 2 * REBALANCE_THRESHOLDS["XRP"]}

\* what getWalletBalances resolves to: every combination for a call on its
\* own, the three wallets above inside startRandomLoop
WalletStates ==
    IF schedPc = "idle"
    THEN {balances \in [Symbols -> XRPBalances \cup TokenBalances] :
            \A s \in Symbols : balances[s] \in BalanceSet[s]}
    ELSE IF ManyWallets THEN CycleBalances
    ELSE SchedBalances

\* the balance reads that threw: any for a call on its own, none inside
\* startRandomLoop
ReadFailures == IF schedPc = "idle" THEN SUBSET Symbols ELSE {{}}

\* (balance * 0.05).toFixed(4) and (balance * 0.01).toFixed(4), in ticks:
\* percent of the balance, rounded to the nearest tick
ToFixed4(balance, percent) == (balance * percent + 50) \div 100

MinOf(S) == CHOOSE k \in S : \A m \in S : k <= m

\* the call withRetry(closure): the parameters take their defaults
StartWithRetry ==
    /\ pc' = "call"
    /\ i' = 0
    /\ maxRetries' = DefaultMaxRetries
    /\ initialDelayMs' = DefaultInitialDelayMs
    /\ gasOptions' = NoQuote
    /\ tx' = NullTx
    /\ txAtCall' = totalTransactions
    /\ result' = NoResult
    /\ error' = NoError
    /\ delays' = << >>
    /\ attempts' = << >>
    /\ chain' = << >>
    /\ UNCHANGED totalTransactions

\* a caller that does not await the withRetry call
RetryEndedUnawaited == pc # "idle"

\* the awaited withRetry call has settled and its caller resumes
RetryEnded == pc \in {"returned", "threw"}

RetryRelease ==
    /\ pc' = "idle"
    /\ UNCHANGED <<i, maxRetries, initialDelayMs, gasOptions, tx,
                   totalTransactions, txAtCall, result, error, delays,
                   attempts, chain>>

\* if (receipt)
Truthy_receipt(r) == r.kind = "receipt"

\* the donor test of part_001: double the token's own threshold; a token
\* without a threshold compares with NaN and is never skipped
SkipDonorOwnThreshold(balances, sym) ==
    \/ sym = "XRP"
    \/ /\ sym \in DOMAIN REBALANCE_THRESHOLDS
       /\ balances[sym] < REBALANCE_THRESHOLDS[sym] * 2

\* tokenSymbol === "XRP" || balance < REBALANCE_THRESHOLDS.XRP * 2
SkipDonor(balances, sym) ==
    \/ sym = "XRP"
    \/ balances[sym] < REBALANCE_THRESHOLDS["XRP"] * 2

\* the donors the scan stops at, from position from on
Donors(balances, from) ==
    {k \in from..Len(TokenOrder) :
        /\ ~SkipDonor(balances, TokenOrder[k])
        /\ ToFixed4(balances[TokenOrder[k]], 5) > 0}

\* the for loop over Object.keys(TOKENS), entered at position from
XrpScan(balances, from) ==
    IF Donors(balances, from) = {}
    THEN /\ rbPc' = "done"
         /\ UNCHANGED <<rbIdx, rbSwaps>>
         /\ IF RetryEnded THEN RetryRelease ELSE UNCHANGED retryVars
    ELSE LET k == MinOf(Donors(balances, from))
         IN  /\ rbPc' = "swapXrp"
             /\ rbIdx' = k
             /\ rbSwaps' = Append(rbSwaps,
                    [from |-> TokenOrder[k], to |-> "XRP",
                     amount |-> ToFixed4(balances[TokenOrder[k]], 5)])
             /\ StartWithRetry

\* the secondary tokens under their own threshold
UnderThreshold(balances) ==
    {k \in 1..Len(ThresholdOrder) :
        /\ ThresholdOrder[k] # "XRP"
        /\ balances[ThresholdOrder[k]] < REBALANCE_THRESHOLDS[ThresholdOrder[k]]}

\* parseFloat(walletBalances.XRP) > REBALANCE_THRESHOLDS.XRP * 2
HasSpareXRP(balances) == balances["XRP"] > REBALANCE_THRESHOLDS["XRP"] * 2

\* the for loop over Object.keys(REBALANCE_THRESHOLDS)
TokenScan(balances) ==
    IF /\ UnderThreshold(balances) # {}
       /\ HasSpareXRP(balances)
       /\ ToFixed4(balances["XRP"], 1) > 0
    THEN LET k == MinOf(UnderThreshold(balances))
         IN  /\ rbPc' = "swapToken"
             /\ rbIdx' = k
             /\ rbSwaps' = Append(rbSwaps,
                    [from |-> "XRP", to |-> ThresholdOrder[k],
                     amount |-> ToFixed4(balances["XRP"], 1)])
             /\ StartWithRetry
    ELSE /\ rbPc' = "done"
         /\ UNCHANGED <<rbIdx, rbSwaps, retryVars>>

\* a catch block that throws the error on
RbCatchRethrow == rbPc' = "threw"

\* catch (error) { logger.error(...) } and the return after it
RbCatch == rbPc' = "done"

RbInit ==
    /\ pc = "idle"
    /\ i = 0
    /\ gasOptions = NoQuote
    /\ error = NoError
    /\ RetryIdle
    /\ rbPc = "call"
    /\ walletBalances = NoBalances
    /\ readFailed = {}
    /\ rbIdx = 0
    /\ rbSwaps = << >>
    /\ rebalances = 0
    /\ feeDataIn = NoFeeData
    /\ SchedIdle
    /\ SideIdle

\* checkAndRebalance is entered and awaits getWalletBalances(wallet)
RbCall ==
    /\ rbPc = "call"
    /\ rbPc' = "getWalletBalances"
    /\ UNCHANGED <<walletBalances, readFailed, rbIdx, rbSwaps, rebalances,
                   sideVars, schedVars, retryVars>>

\* getWalletBalances resolves (a read that threw gives "0"); the branch is
\* taken and the scan runs up to its first await or to the return
RbBalancesRead ==
    /\ rbPc = "getWalletBalances"
    /\ \E failed \in ReadFailures :
       \E balances \in WalletStates :
         /\ \A s \in failed : balances[s] = 0
         /\ readFailed' = failed
         /\ walletBalances' = balances
         /\ IF balances["XRP"] < REBALANCE_THRESHOLDS["XRP"]
            THEN XrpScan(balances, 1)
            ELSE TokenScan(balances)
    /\ UNCHANGED <<rebalances, sideVars, schedVars>>

\* the swap for XRP counted without leaving the scan: the break left out
RbXrpSwapEndsNoBreak ==
    /\ rbPc = "swapXrp"
    /\ RetryEnded
    /\ IF pc = "threw"
       THEN /\ RbCatch
            /\ RetryRelease
            /\ UNCHANGED <<rbIdx, rbSwaps, rebalances>>
       ELSE /\ rebalances' = rebalances + 1
            /\ XrpScan(walletBalances, rbIdx + 1)
    /\ UNCHANGED <<walletBalances, readFailed, sideVars, schedVars>>

\* the withRetry call of the XRP branch has settled
RbXrpSwapEnds ==
    /\ rbPc = "swapXrp"
    /\ RetryEnded
    /\ IF pc = "threw"
       THEN /\ RbCatch
            /\ RetryRelease
            /\ UNCHANGED <<rbIdx, rbSwaps, rebalances>>
       ELSE IF Truthy_receipt(result)
       THEN /\ rebalances' = rebalances + 1
            /\ rbPc' = "done"
            /\ RetryRelease
            /\ UNCHANGED <<rbIdx, rbSwaps>>
       ELSE /\ UNCHANGED rebalances
            /\ XrpScan(walletBalances, rbIdx + 1)
    /\ UNCHANGED <<walletBalances, readFailed, sideVars, schedVars>>

\* the withRetry call of the secondary-token branch has settled
RbTokenSwapEnds ==
    /\ rbPc = "swapToken"
    /\ RetryEnded
    /\ IF pc = "threw"
       THEN /\ RbCatch
            /\ UNCHANGED rebalances
       ELSE /\ rebalances' = IF Truthy_receipt(result) THEN rebalances + 1
                             ELSE rebalances
            /\ rbPc' = "done"
    /\ RetryRelease
    /\ UNCHANGED <<walletBalances, readFailed, rbIdx, rbSwaps, sideVars, schedVars>>

\* the steps of a withRetry call that a caller awaits
RetrySteps ==
    \/ Call
    \/ GetFeeDataResolves
    \/ GetFeeDataRejects
    \/ FuncReturns
    \/ FuncThrows
    \/ WaitResolves
    \/ WaitRejects
    \/ TimeoutWins
    \/ DelayResolves

RbNext ==
    \/ RbCall
    \/ RbBalancesRead
    \/ RbXrpSwapEnds
    \/ RbTokenSwapEnds
    \/ RetrySteps

SpecRebalance == RbInit /\ [][RbNext]_vars

(* ---------------------------- startRandomLoop ------------------------- *)

\* the wallets loaded from the keys of the environment: one
Wallets == <<"w1">>

\* let retriesLeft = 3
OuterRetries == 3

\* the keys of ACTION_PROBABILITIES, in the order of the for-in loop
ActionOrder ==
    <<"SWAP", "ADD_LIQUIDITY", "REMOVE_LIQUIDITY", "SEND_AND_RECEIVE",
      "RANDOM_SEND">>

ACTION_PROBABILITIES ==
    [SWAP |-> 40, ADD_LIQUIDITY |-> 20, REMOVE_LIQUIDITY |-> 10,
     SEND_AND_RECEIVE |-> 15, RANDOM_SEND |-> 15]

\* the counter each case of the switch increments
CounterOf ==
    [SWAP |-> "swaps", ADD_LIQUIDITY |-> "addsLiquidity",
     REMOVE_LIQUIDITY |-> "removesLiquidity",
     SEND_AND_RECEIVE |-> "sendsAndReceives", RANDOM_SEND |-> "randomSends"]

\* Math.random() * 100, sampled at the two ends of every category's range
RandChoices == {0, 39, 40, 59, 60, 69, 70, 84, 85, 99}

\* cumulativeProbability after k rounds of the for-in loop
RECURSIVE CumulativeProbability(_)
CumulativeProbability(k) ==
    IF k = 0 THEN 0
    ELSE CumulativeProbability(k - 1) + ACTION_PROBABILITIES[ActionOrder[k]]

\* the draws in a cycle over several wallets: a swap, an addition
CycleDraws == {0, 40}

Draws == IF ManyWallets THEN CycleDraws ELSE RandChoices

selectWeightedAction(rand) ==
    LET hits == {k \in 1..Len(ActionOrder) : rand < CumulativeProbability(k)}
    IN  IF hits = {} THEN "SWAP" ELSE ActionOrder[MinOf(hits)]

\* getCalculatedAmount(wallet, "XRP"): "0" or a positive amount, in ticks
SwapAmounts == {0, 1}

\* checkAndRebalance(wallet) is called: a new frame
RbEnter ==
    /\ rbPc' = "call"
    /\ walletBalances' = NoBalances
    /\ readFailed' = {}
    /\ rbIdx' = 0
    /\ rbSwaps' = << >>
    /\ UNCHANGED rebalances

\* the outer attempt is over: the frame of its checkAndRebalance call is gone
RbLeave ==
    /\ rbPc' = "idle"
    /\ walletBalances' = NoBalances
    /\ readFailed' = {}
    /\ rbIdx' = 0
    /\ rbSwaps' = << >>
    /\ UNCHANGED rebalances

\* the outer attempt is over: the frame of its withRetry call is gone
RetryLeave ==
    /\ pc' = "idle"
    /\ i' = 0
    /\ maxRetries' = 0
    /\ initialDelayMs' = DefaultInitialDelayMs
    /\ gasOptions' = NoQuote
    /\ tx' = NullTx
    /\ txAtCall' = 0
    /\ result' = NoResult
    /\ error' = NoError
    /\ delays' = << >>
    /\ attempts' = << >>
    /\ chain' = << >>
    /\ UNCHANGED totalTransactions

\* a scheduler that does not await checkAndRebalance
RebalanceSettledUnawaited == TRUE

\* await checkAndRebalance(wallet) has resolved
RebalanceSettled == rbPc = "done"

\* the try block is entered: checkAndRebalance(wallet) is called first
EnterTry ==
    /\ schedPc' = "rebalance"
    /\ action' = "none"
    /\ RbEnter

\* a catch block that rethrows once the retries ran out: the rejection
\* ends startRandomLoop
OuterCatchRethrows ==
    /\ retriesLeft' = retriesLeft - 1
    /\ failedAction' = action
    /\ action' = "none"
    /\ IF retriesLeft - 1 > 0
       THEN /\ schedPc' = "retryDelay"
            /\ UNCHANGED exhausted
       ELSE /\ schedPc' = "rejected"
            /\ exhausted' = exhausted \cup {walletIdx}
    /\ RbLeave
    /\ RetryLeave
    /\ UNCHANGED <<walletIdx, actionSuccessful, outerAttempts, stats, alerts,
                   wallets, stateSaves>>

\* a catch block that gives the wallet up when the error is a failed
\* precondition
OuterCatchGivesUp ==
    /\ retriesLeft' = IF error.kind = "PreconditionFailure" THEN 0
                      ELSE retriesLeft - 1
    /\ failedAction' = action
    /\ action' = "none"
    /\ IF retriesLeft - 1 > 0 /\ error.kind # "PreconditionFailure"
       THEN /\ schedPc' = "retryDelay"
            /\ UNCHANGED exhausted
       ELSE /\ schedPc' = "nextWallet"
            /\ exhausted' = exhausted \cup {walletIdx}
    /\ RbLeave
    /\ RetryLeave
    /\ UNCHANGED <<walletIdx, actionSuccessful, outerAttempts, stats, alerts,
                   wallets, stateSaves>>

\* the catch block of the outer loop, and the loop test after it
OuterCatch ==
    /\ retriesLeft' = retriesLeft - 1
    /\ failedAction' = action
    /\ action' = "none"
    /\ IF retriesLeft - 1 > 0
       THEN /\ schedPc' = "retryDelay"
            /\ UNCHANGED exhausted
       ELSE /\ schedPc' = "nextWallet"
            /\ exhausted' = exhausted \cup {walletIdx}
    /\ RbLeave
    /\ RetryLeave
    /\ UNCHANGED <<walletIdx, actionSuccessful, outerAttempts, stats, alerts,
                   wallets, stateSaves>>

SchedInit ==
    /\ pc = "idle"
    /\ i = 0
    /\ gasOptions = NoQuote
    /\ error = NoError
    /\ RetryIdle
    /\ RbIdle
    /\ feeDataIn = NoFeeData
    /\ SideIdle
    /\ schedPc = "start"
    /\ walletIdx = 0
    /\ actionSuccessful = FALSE
    /\ retriesLeft = 0
    /\ action = "none"
    /\ failedAction = "none"
    /\ outerAttempts = 0
    /\ stats = NoStats
    /\ alerts = << >>
    /\ exhausted = {}
    /\ wallets = Wallets
    /\ stateSaves = 0

\* startRandomLoop is entered: the start alert, then the first cycle begins
SchedStart ==
    /\ schedPc = "start"
    /\ alerts' = Append(alerts, [level |-> "info", text |-> "started", wallet |-> 0])
    /\ schedPc' = "nextWallet"
    /\ UNCHANGED <<walletIdx, actionSuccessful, retriesLeft, action,
                   failedAction, outerAttempts, stats, exhausted, wallets,
                   stateSaves>>
    /\ UNCHANGED <<rbVars, sideVars, retryVars>>

\* the for loop takes the next wallet and the while loop enters its try
\* block, or the cycle ends with saveState()
SchedNextWallet ==
    /\ schedPc = "nextWallet"
    /\ walletIdx' = walletIdx + 1
    /\ IF walletIdx + 1 <= Len(wallets)
       THEN /\ actionSuccessful' = FALSE
            /\ retriesLeft' = OuterRetries
            /\ outerAttempts' = 1
            /\ failedAction' = "none"
            /\ EnterTry
            /\ UNCHANGED stateSaves
       ELSE /\ schedPc' = "cycleDone"
            /\ stateSaves' = stateSaves + 1
            /\ UNCHANGED <<actionSuccessful, retriesLeft, action,
                           failedAction, outerAttempts, rbVars>>
    /\ UNCHANGED <<stats, alerts, exhausted, wallets, sideVars, retryVars>>

\* delay(5000) resolves: the while test holds and the try block is entered
SchedRetryDelayResolves ==
    /\ schedPc = "retryDelay"
    /\ outerAttempts' = outerAttempts + 1
    /\ EnterTry
    /\ UNCHANGED <<walletIdx, actionSuccessful, retriesLeft, failedAction,
                   stats, alerts, exhausted, wallets,
                   stateSaves, sideVars, retryVars>>

\* an outer retry that runs the failed action again
SchedSelectSticky ==
    /\ schedPc = "rebalance"
    /\ RebalanceSettled
    /\ \E rand \in Draws :
         LET a == IF failedAction # "none" THEN failedAction
                  ELSE selectWeightedAction(rand)
         IN  /\ action' = a
             /\ IF a = "SWAP"
                THEN /\ schedPc' = "calcAmount"
                     /\ UNCHANGED retryVars
                ELSE /\ schedPc' = "dispatch"
                     /\ StartWithRetry
    /\ failedAction' = "none"
    /\ UNCHANGED <<walletIdx, actionSuccessful, retriesLeft, outerAttempts,
                   stats, alerts, exhausted, wallets,
                   stateSaves, rbVars, sideVars>>

\* checkAndRebalance has resolved: selectWeightedAction() and the switch, up
\* to the first await of the selected case
SchedSelect ==
    /\ schedPc = "rebalance"
    /\ RebalanceSettled
    /\ \E rand \in Draws :
         LET a == selectWeightedAction(rand)
         IN  /\ action' = a
             /\ IF a = "SWAP"
                THEN /\ schedPc' = "calcAmount"
                     /\ UNCHANGED retryVars
                ELSE /\ schedPc' = "dispatch"
                     /\ StartWithRetry
    /\ failedAction' = "none"
    /\ UNCHANGED <<walletIdx, actionSuccessful, retriesLeft, outerAttempts,
                   stats, alerts, exhausted, wallets,
                   stateSaves, rbVars, sideVars>>

\* a switch after which a skipped swap counts as a successful attempt
SchedAmountResolvesSkipSucceeds ==
    /\ schedPc = "calcAmount"
    /\ \E swapAmount \in SwapAmounts :
         IF swapAmount > 0
         THEN /\ schedPc' = "dispatch"
              /\ StartWithRetry
              /\ UNCHANGED <<walletIdx, actionSuccessful, retriesLeft,
                             action, failedAction, outerAttempts, stats,
                             alerts, exhausted, wallets, stateSaves, rbVars>>
         ELSE /\ actionSuccessful' = TRUE
              /\ schedPc' = "nextWallet"
              /\ action' = "none"
              /\ RbLeave
              /\ RetryLeave
              /\ UNCHANGED <<walletIdx, retriesLeft, failedAction,
                             outerAttempts, stats, alerts, exhausted,
                             wallets, stateSaves>>
    /\ UNCHANGED sideVars

\* case "SWAP": getCalculatedAmount resolves; a positive amount is swapped,
\* "0" leaves receipt null and the test of the undeclared error throws
SchedAmountResolves ==
    /\ schedPc = "calcAmount"
    /\ \E swapAmount \in SwapAmounts :
         IF swapAmount > 0
         THEN /\ schedPc' = "dispatch"
              /\ StartWithRetry
              /\ UNCHANGED <<walletIdx, actionSuccessful, retriesLeft,
                             action, failedAction, outerAttempts, stats,
                             alerts, exhausted, wallets,
                   stateSaves, rbVars>>
         ELSE OuterCatch
    /\ UNCHANGED sideVars

\* a switch that counts the action whatever its withRetry call came to
SchedDispatchEndsCountsAny ==
    /\ schedPc = "dispatch"
    /\ RetryEnded
    /\ stats' = [stats EXCEPT ![CounterOf[action]] = @ + 1]
    /\ actionSuccessful' = TRUE
    /\ schedPc' = "nextWallet"
    /\ action' = "none"
    /\ RbLeave
    /\ RetryLeave
    /\ UNCHANGED <<walletIdx, retriesLeft, failedAction, outerAttempts,
                   alerts, exhausted, wallets,
                   stateSaves>>
    /\ UNCHANGED sideVars

\* the withRetry call of the selected case has settled
SchedDispatchEnds ==
    /\ schedPc = "dispatch"
    /\ RetryEnded
    /\ IF pc = "returned" /\ Truthy_receipt(result)
       THEN /\ stats' = [stats EXCEPT ![CounterOf[action]] = @ + 1]
            /\ actionSuccessful' = TRUE
            /\ schedPc' = "nextWallet"
            /\ action' = "none"
            /\ RbLeave
            /\ RetryLeave
            /\ UNCHANGED <<walletIdx, retriesLeft, failedAction,
                           outerAttempts, alerts, exhausted, wallets,
                   stateSaves>>
       ELSE OuterCatch
    /\ UNCHANGED sideVars

\* the steps of the withRetry calls inside startRandomLoop: an attempt
\* fails in the closure or in the confirmation
SchedRetrySteps ==
    \/ Call
    \/ GetFeeDataResolves
    \/ FuncReturns
    \/ FuncThrows
    \/ WaitResolves
    \/ TimeoutWins
    \/ DelayResolves

SchedNext ==
    \/ SchedStart
    \/ SchedNextWallet
    \/ SchedRetryDelayResolves
    \/ SchedSelect
    \/ SchedAmountResolves
    \/ SchedDispatchEnds
    \/ RbCall
    \/ RbBalancesRead
    \/ RbXrpSwapEnds
    \/ RbTokenSwapEnds
    \/ SchedRetrySteps

SpecScheduler == SchedInit /\ [][SchedNext]_vars

(* ------------------- a cycle over two wallets, and SIGINT -------------- *)

\* two keys in the environment
TwoWallets == <<"w1", "w2">>

CycleInit ==
    /\ pc = "idle"
    /\ i = 0
    /\ gasOptions = NoQuote
    /\ error = NoError
    /\ RetryIdle
    /\ RbIdle
    /\ feeDataIn = NoFeeData
    /\ SideIdle
    /\ schedPc = "start"
    /\ walletIdx = 0
    /\ actionSuccessful = FALSE
    /\ retriesLeft = 0
    /\ action = "none"
    /\ failedAction = "none"
    /\ outerAttempts = 0
    /\ stats = NoStats
    /\ alerts = << >>
    /\ exhausted = {}
    /\ wallets = TwoWallets
    /\ stateSaves = 0

\* process.on('SIGINT', ...): the handler logs, calls sendAlert and
\* process.exit(); whatever was awaited is gone with the process
Sigint ==
    /\ schedPc \notin {"idle", "start", "exited"}
    /\ alerts' = Append(alerts, [level |-> "info", text |-> "stopped",
                                 wallet |-> 0])
    /\ schedPc' = "exited"
    /\ action' = "none"
    /\ RbLeave
    /\ RetryLeave
    /\ UNCHANGED <<walletIdx, actionSuccessful, retriesLeft, failedAction,
                   outerAttempts, stats, exhausted, wallets, stateSaves,
                   sideVars>>

\* the steps of the withRetry calls in a cycle over several wallets: the
\* confirmation arrives before the timer
CycleRetrySteps ==
    \/ Call
    \/ GetFeeDataResolves
    \/ FuncReturns
    \/ FuncThrows
    \/ WaitResolves
    \/ DelayResolves

\* the steps of the loop itself: what it awaits settles
CycleSteps ==
    \/ SchedStart
    \/ SchedNextWallet
    \/ SchedRetryDelayResolves
    \/ SchedSelect
    \/ SchedAmountResolves
    \/ SchedDispatchEnds
    \/ RbCall
    \/ RbBalancesRead
    \/ RbXrpSwapEnds
    \/ CycleRetrySteps

CycleNext ==
    \/ CycleSteps
    \/ Sigint

\* every promise the loop awaits settles and every timer fires; the
\* operator may or may not interrupt
SpecCycle == CycleInit /\ [][CycleNext]_vars /\ WF_vars(CycleSteps)

(* ------------------------ computations on their own ------------------- *)

\* the keys of ACTION_WEIGHTS of part_000, in the order of the for-in loop
WeightOrder == <<"swap", "send", "addLiquidity", "customContractCall">>

ACTION_WEIGHTS ==
    [swap |-> 40, send |-> 20, addLiquidity |-> 20, customContractCall |-> 20]

\* totalWeight after k rounds of the first for-in loop
RECURSIVE SumWeights(_)
SumWeights(k) ==
    IF k = 0 THEN 0 ELSE SumWeights(k - 1) + ACTION_WEIGHTS[WeightOrder[k]]

TotalWeight == SumWeights(Len(WeightOrder))

\* the second for-in loop of part_000, entered at key k with randomNum:
\* randomNum -= weights[action]; if (randomNum <= 0) return action
RECURSIVE SubtractAndWalk(_, _)
SubtractAndWalk(k, randomNum) ==
    IF k > Len(WeightOrder) THEN "null"
    ELSE LET rest == randomNum - ACTION_WEIGHTS[WeightOrder[k]]
         IN  IF rest <= 0 THEN WeightOrder[k]
             ELSE SubtractAndWalk(k + 1, rest)

\* selectWeightedAction(ACTION_WEIGHTS) of part_000, for the draw randomNum
selectWeightedActionByWeights(randomNum) == SubtractAndWalk(1, randomNum)

\* BigInt (a * b) / c for a, b >= 0 and c > 0: exact, and truncated once;
\* split so that no intermediate value leaves the range of the checker
BigMulDiv(a, b, c) == (a \div c) * b + ((a % c) * b) \div c

\* dividing before multiplying: truncated too early
AmountOutMinDivideFirst(expectedAmountOutRaw, toleranceBps) ==
    (expectedAmountOutRaw \div 10000) * (10000 - toleranceBps)

\* (expectedAmountOutRaw * (10000n - SLIPPAGE_TOLERANCE_DENOMINATOR)) / 10000n
AmountOutMin(expectedAmountOutRaw, toleranceBps) ==
    BigMulDiv(expectedAmountOutRaw, 10000 - toleranceBps, 10000)

\* BigInt(Math.round(SLIPPAGE_TOLERANCE_PERCENT * 100)): 50 as configured,
\* and the values around it and at both ends
ToleranceChoices == {0, 1, 50, 100, 9999, 10000}

\* amounts[1] of getAmountsOut: small outputs and outputs around 10000
ExpectedOutputs == (0..MaxAmount) \cup {9999, 10000, 10001, 199999, 1000000}

CalcInit ==
    /\ pc = "idle"
    /\ i = 0
    /\ gasOptions = NoQuote
    /\ error = NoError
    /\ RetryIdle
    /\ RbIdle
    /\ feeDataIn = NoFeeData
    /\ SchedIdle
    /\ ExIdle
    /\ WinIdle
    /\ calcOut = << >>
    /\ selected = "none"
    /\ \/ /\ calcPc = "select"
          /\ calcIn \in [x : 0..(TotalWeight - 1), y : {0}]
       \/ /\ calcPc = "slippage"
          /\ calcIn \in [x : ExpectedOutputs, y : ToleranceChoices]

\* selectWeightedAction(ACTION_WEIGHTS) returns
SelectReturns ==
    /\ calcPc = "select"
    /\ calcPc' = "selectDone"
    /\ selected' = selectWeightedActionByWeights(calcIn.x)
    /\ UNCHANGED <<calcIn, calcOut, feeDataIn, exVars, winVars,
                   retryVars, rbVars,
                   schedVars>>

\* getAmountsOut resolves and the floor is computed; called again with the
\* same arguments, it is computed again
SlippageEstimated ==
    /\ calcPc \in {"slippage", "slippageDone"}
    /\ Len(calcOut) < 2
    /\ calcPc' = "slippageDone"
    /\ calcOut' = Append(calcOut, AmountOutMin(calcIn.x, calcIn.y))
    /\ UNCHANGED <<calcIn, selected, feeDataIn, exVars, winVars,
                   retryVars, rbVars,
                   schedVars>>

\* getAmountsOut rejects: the catch block sets amountOutMin to 0
SlippageEstimateFails ==
    /\ calcPc = "slippage"
    /\ calcPc' = "slippageFailed"
    /\ calcOut' = Append(calcOut, 0)
    /\ UNCHANGED <<calcIn, selected, feeDataIn, exVars, winVars,
                   retryVars, rbVars,
                   schedVars>>

CalcNext ==
    \/ SelectReturns
    \/ SlippageEstimated
    \/ SlippageEstimateFails

SpecCalc == CalcInit /\ [][CalcNext]_vars

(* --------------------------- the action executors --------------------- *)

Executors ==
    {"performSwap", "performAddLiquidity", "performRemoveLiquidity",
     "performSendAndReceive", "performRandomSend"}

\* amounts an executor is asked to move, in units of the token
ExAmounts == {1, 2, 5}

\* cfg.removeAmountPercentage
Percentages == {0, 1, 50, 100}

\* balances a read may answer with
ExBalances == (0..MaxAmount) \cup {1000000}

\* the arguments and the configuration an executor may run with
ArgsOf(e) ==
    CASE e = "performSwap" ->
             [amount : ExAmounts, count : {1}, percentage : {0},
              inXRP : BOOLEAN]
      [] e = "performAddLiquidity" ->
             [amount : ExAmounts, count : {1}, percentage : {0},
              inXRP : {FALSE}]
      [] e = "performRemoveLiquidity" ->
             [amount : {0}, count : {1}, percentage : Percentages,
              inXRP : {FALSE}]
      [] e = "performSendAndReceive" ->
             [amount : ExAmounts, count : {1}, percentage : {0},
              inXRP : {FALSE}]
      [] e = "performRandomSend" ->
             [amount : ExAmounts, count : {2}, percentage : {0},
              inXRP : {FALSE}]

\* the check that lets every amount through
InsufficientNever(needed, balance) == FALSE

\* parseFloat(amount) > currentBalance
Insufficient(needed, balance) == needed > balance

\* the burn amount rounded to the nearest unit
RemoveAmountRounded(lpBalance, percentage) ==
    (lpBalance * percentage + 50) \div 100

\* (lpBalance * BigInt(cfg.removeAmountPercentage)) / BigInt(100)
RemoveAmount(lpBalance, percentage) == BigMulDiv(lpBalance, percentage, 100)

\* const totalAmountNeeded = amount * cfg.sendAddressCount
TotalAmountNeeded == exArgs.amount * exArgs.count

\* the states in which the executor awaits the acceptance of a transaction
SendStates ==
    {"approveSend", "mainSend", "fundSend", "tokenSend", "returnSend",
     "transferSend"}

\* the states in which the executor awaits a confirmation by itself
WaitStates ==
    {"approveWait", "fundWait", "tokenWait", "returnWait", "transferWait"}

\* the transaction each send state submits
KindOf(state) ==
    CASE state = "approveSend" -> "approve"
      [] state = "fundSend" -> "fund"
      [] state = "tokenSend" -> "send"
      [] state = "returnSend" -> "return"
      [] state = "transferSend" -> "transfer"
      [] state = "mainSend" ->
             CASE executor = "performSwap" -> "swap"
               [] executor = "performAddLiquidity" -> "addLiquidity"
               [] OTHER -> "removeLiquidity"

\* an executor that sends the main transaction right after the approval
AfterSendNoWait(state) ==
    CASE state = "approveSend" -> "mainSend"
      [] state = "fundSend" -> "fundWait"
      [] state = "tokenSend" -> "tokenWait"
      [] state = "returnSend" -> "returnWait"
      [] state = "transferSend" -> "transferWait"
      [] state = "mainSend" -> "returned"

\* where the executor goes once the provider accepted the transaction
AfterSend(state) ==
    CASE state = "approveSend" -> "approveWait"
      [] state = "fundSend" -> "fundWait"
      [] state = "tokenSend" -> "tokenWait"
      [] state = "returnSend" -> "returnWait"
      [] state = "transferSend" -> "transferWait"
      [] state = "mainSend" -> "returned"

\* where the executor goes once the confirmation it awaits arrived; n is
\* the loop counter after i++
AfterWait(state, n) ==
    CASE state = "approveWait" -> "mainSend"
      [] state = "fundWait" -> "tokenSend"
      [] state = "tokenWait" -> "returnSend"
      [] state = "returnWait" ->
             IF n < exArgs.count THEN "fundSend" ELSE "returned"
      [] state = "transferWait" ->
             IF n < exArgs.count THEN "transferSend" ELSE "returned"

\* throw new Error(...)
ExThrow(kind) ==
    /\ exPc' = "threw"
    /\ exError' = kind

\* withRetry invoked the executor with the quote of its first attempt
ExecInit ==
    /\ pc = "func"
    /\ i = 0
    /\ maxRetries = DefaultMaxRetries
    /\ initialDelayMs = DefaultInitialDelayMs
    /\ \E feeData \in SchedFeeData : gasOptions = getGasPrice(feeData, 0)
    /\ tx = NullTx
    /\ totalTransactions = 0
    /\ txAtCall = 0
    /\ result = NoResult
    /\ error = NoError
    /\ delays = << >>
    /\ attempts = <<[NewAttempt(0) EXCEPT !.gas = "ok"]>>
    /\ chain = << >>
    /\ RbIdle
    /\ feeDataIn = NoFeeData
    /\ SchedIdle
    /\ CalcIdle
    /\ WinIdle
    /\ exPc = "entry"
    /\ executor \in Executors
    /\ exArgs \in ArgsOf(executor)
    /\ exBalance = Null
    /\ exXrp = "unread"
    /\ exAmount = 0
    /\ exAllowance = Null
    /\ exLoop = 0
    /\ submitted = << >>
    /\ exConfirmed = {}
    /\ exError = "none"

\* the balance reads at the head of the executor settle and the checks that
\* follow them run
ExBalanceRead ==
    /\ exPc = "entry"
    /\ \/ /\ ExThrow("RpcTransportError")
          /\ UNCHANGED <<exBalance, exXrp, exAmount, exLoop>>
       \/ \E balance \in ExBalances :
            /\ exBalance' = balance
            /\ CASE executor = "performSwap" ->
                      /\ IF Insufficient(exArgs.amount, balance)
                         THEN ExThrow("Insufficient")
                         ELSE exPc' = "estimate" /\ UNCHANGED exError
                      /\ UNCHANGED <<exXrp, exAmount, exLoop>>
                 [] executor = "performAddLiquidity" ->
                      \E xrp \in {"enough", "short"} :
                        /\ exXrp' = xrp
                        /\ IF xrp = "short"
                              \/ Insufficient(exArgs.amount, balance)
                           THEN ExThrow("Insufficient") /\ UNCHANGED exAmount
                           ELSE /\ exPc' = "allowance"
                                /\ exAmount' = exArgs.amount
                                /\ UNCHANGED exError
                        /\ UNCHANGED exLoop
                 [] executor = "performRemoveLiquidity" ->
                      LET lpAmountToRemove ==
                              RemoveAmount(balance, exArgs.percentage)
                      IN  /\ IF balance = 0
                             THEN ExThrow("NoLpTokens") /\ UNCHANGED exAmount
                             ELSE IF lpAmountToRemove = 0
                             THEN ExThrow("ZeroAmount") /\ UNCHANGED exAmount
                             ELSE /\ exPc' = "allowance"
                                  /\ exAmount' = lpAmountToRemove
                                  /\ UNCHANGED exError
                          /\ UNCHANGED <<exXrp, exLoop>>
                 [] OTHER ->
                      /\ IF Insufficient(TotalAmountNeeded, balance)
                         THEN ExThrow("Insufficient")
                         ELSE /\ exPc' = IF exArgs.count = 0 THEN "returned"
                                         ELSE IF executor =
                                                    "performSendAndReceive"
                                         THEN "fundSend"
                                         ELSE "transferSend"
                              /\ UNCHANGED exError
                      /\ exLoop' = 0
                      /\ UNCHANGED <<exXrp, exAmount>>
    /\ UNCHANGED <<executor, exConfirmed, exArgs, exAllowance, submitted, feeDataIn,
                   calcVars, winVars, retryVars, rbVars, schedVars>>

\* performSwap: getAmountsOut settles, either way the executor goes on
ExEstimateSettles ==
    /\ exPc = "estimate"
    /\ exPc' = IF exArgs.inXRP THEN "gasCheck" ELSE "allowance"
    /\ exAmount' = exArgs.amount
    /\ UNCHANGED <<executor, exConfirmed, exArgs, exBalance, exXrp, exAllowance, exLoop,
                   submitted, exError, feeDataIn, calcVars, winVars, retryVars, rbVars,
                   schedVars>>

\* performSwap from XRP: the second balance read settles and the check of
\* value plus gas runs
ExGasCheck ==
    /\ exPc = "gasCheck"
    /\ \/ ExThrow("RpcTransportError") /\ UNCHANGED exXrp
       \/ \E xrp \in {"enough", "short"} :
            /\ exXrp' = xrp
            /\ IF xrp = "short"
               THEN ExThrow("Insufficient")
               ELSE exPc' = "mainSend" /\ UNCHANGED exError
    /\ UNCHANGED <<executor, exConfirmed, exArgs, exBalance, exAmount, exAllowance, exLoop,
                   submitted, feeDataIn, calcVars, winVars, retryVars, rbVars,
                   schedVars>>

\* allowance(wallet.address, ROUTER_ADDRESS) settles
ExAllowanceRead ==
    /\ exPc = "allowance"
    /\ \/ ExThrow("RpcTransportError") /\ UNCHANGED exAllowance
       \/ \E currentAllowance \in {0, exAmount - 1, exAmount} :
            /\ exAllowance' = currentAllowance
            /\ exPc' = IF currentAllowance < exAmount THEN "approveSend"
                       ELSE "mainSend"
            /\ UNCHANGED exError
    /\ UNCHANGED <<executor, exConfirmed, exArgs, exBalance, exXrp, exAmount, exLoop,
                   submitted, feeDataIn, calcVars, winVars, retryVars, rbVars,
                   schedVars>>

\* the provider accepts a transaction of the executor, or rejects it
ExSubmit ==
    /\ exPc \in SendStates
    /\ \/ /\ submitted' = Append(submitted, KindOf(exPc))
          /\ exPc' = AfterSend(exPc)
          /\ UNCHANGED exError
       \/ /\ ExThrow("RpcTransportError")
          /\ UNCHANGED submitted
    /\ UNCHANGED <<executor, exConfirmed, exArgs, exBalance, exXrp, exAmount, exAllowance,
                   exLoop, feeDataIn, calcVars, winVars, retryVars, rbVars, schedVars>>

\* a confirmation the executor awaits by itself arrives: the transaction
\* was mined, or it reverted and wait() rejects
ExWaitSettles ==
    /\ exPc \in WaitStates
    /\ \/ LET n == IF exPc \in {"returnWait", "transferWait"}
                   THEN exLoop + 1 ELSE exLoop
          IN  /\ exLoop' = n
              /\ exPc' = AfterWait(exPc, n)
              /\ exConfirmed' = exConfirmed \cup {Len(submitted)}
              /\ UNCHANGED exError
       \/ /\ ExThrow("CallException")
          /\ UNCHANGED <<exLoop, exConfirmed>>
    /\ UNCHANGED <<executor, exArgs, exBalance, exXrp, exAmount, exAllowance,
                   submitted, feeDataIn, calcVars, winVars, retryVars, rbVars,
                   schedVars>>

\* the executor returned its last transaction: withRetry counts it and
\* starts the race of its confirmation against the timer
ExReturns ==
    /\ exPc = "returned"
    /\ pc = "func"
    /\ exPc' = "left"
    /\ tx' = Handle(Len(chain) + 1)
    /\ totalTransactions' = CountSend(totalTransactions, txAtCall)
    /\ attempts' = SetLast(attempts, [Last(attempts) EXCEPT
                                         !.func = "handle",
                                         !.hash = Len(chain) + 1,
                                         !.timer = "armed"])
    /\ chain' = Append(chain, "pending")
    /\ pc' = "race"
    /\ UNCHANGED <<i, maxRetries, initialDelayMs, gasOptions, txAtCall,
                   result, error, delays>>
    /\ UNCHANGED <<executor, exConfirmed, exArgs, exBalance, exXrp, exAmount, exAllowance,
                   exLoop, submitted, exError, feeDataIn, calcVars, winVars, rbVars,
                   schedVars>>

\* the executor threw: the catch block of withRetry runs
ExThrows ==
    /\ exPc = "threw"
    /\ pc = "func"
    /\ exPc' = "left"
    /\ LET kind == IF exError \in {"RpcTransportError", "CallException"}
                   THEN "RpcTransportError" ELSE "PreconditionFailure"
       IN  Catch(Err(kind, i), [Last(attempts) EXCEPT !.func = kind])
    /\ UNCHANGED <<i, maxRetries, initialDelayMs, tx, totalTransactions,
                   txAtCall, result, chain>>
    /\ UNCHANGED <<executor, exConfirmed, exArgs, exBalance, exXrp, exAmount, exAllowance,
                   exLoop, submitted, exError, feeDataIn, calcVars, winVars, rbVars,
                   schedVars>>

ExecNext ==
    \/ ExBalanceRead
    \/ ExEstimateSettles
    \/ ExGasCheck
    \/ ExAllowanceRead
    \/ ExSubmit
    \/ ExWaitSettles
    \/ ExReturns
    \/ ExThrows
    \/ WaitResolves
    \/ TimeoutWins

SpecExec == ExecInit /\ [][ExecNext]_vars

(* ------------- the 24-hour window of the persisting version ---------- *)

\* const twentyFourHours = 24 * 60 * 60 * 1000, in half-days
twentyFourHours == 2

\* what STATE_FILE may hold when the process starts: nothing, text that
\* does not parse, or the snapshot an earlier run saved
StateFiles(t) ==
    {NoFile, [kind |-> "corrupt", startTime |-> 0]}
        \cup [kind : {"snapshot"}, startTime : 1..t]

\* the module is loaded: activityStats.startTime is Date.now()
WinInit ==
    /\ pc = "idle"
    /\ i = 0
    /\ gasOptions = NoQuote
    /\ error = NoError
    /\ RetryIdle
    /\ RbIdle
    /\ feeDataIn = NoFeeData
    /\ SchedIdle
    /\ CalcIdle
    /\ ExIdle
    /\ winPc = "load"
    /\ now \in 1..(MaxClock - 1)
    /\ startTime = now
    /\ stateFile \in StateFiles(now)
    /\ cycles = 0

\* loadState(), called by main before the menu
loadState ==
    /\ winPc = "load"
    /\ startTime' =
          IF stateFile.kind = "snapshot"
          THEN IF Truthy(stateFile.startTime) THEN stateFile.startTime
               ELSE now
          ELSE now
    /\ winPc' = "menu"
    /\ UNCHANGED <<now, stateFile, cycles>>
    /\ UNCHANGED <<feeDataIn, calcVars, exVars, retryVars, rbVars, schedVars>>

\* the operator picks the loop in the menu, after a while: startRandomLoop
\* runs up to its while test
MenuStartsLoop ==
    /\ winPc = "menu"
    /\ \E t \in now..MaxClock : now' = t
    /\ winPc' = "loopTest"
    /\ UNCHANGED <<startTime, stateFile, cycles>>
    /\ UNCHANGED <<feeDataIn, calcVars, exVars, retryVars, rbVars, schedVars>>

\* while (Date.now() - activityStats.startTime < twentyFourHours)
LoopTest ==
    /\ winPc = "loopTest"
    /\ winPc' = IF now - startTime < twentyFourHours THEN "cycle"
                ELSE "finished"
    /\ UNCHANGED <<now, startTime, stateFile, cycles>>
    /\ UNCHANGED <<feeDataIn, calcVars, exVars, retryVars, rbVars, schedVars>>

\* the for loop over the wallets and delay(DELAY_AFTER_CYCLE): every wallet
\* was processed once more, and time has passed
CycleRuns ==
    /\ winPc = "cycle"
    /\ now < MaxClock
    /\ \E t \in (now + 1)..MaxClock : now' = t
    /\ cycles' = IF cycles < MaxCycles THEN cycles + 1 ELSE cycles
    /\ winPc' = "loopTest"
    /\ UNCHANGED <<startTime, stateFile>>
    /\ UNCHANGED <<feeDataIn, calcVars, exVars, retryVars, rbVars, schedVars>>

WinNext ==
    \/ loadState
    \/ MenuStartsLoop
    \/ LoopTest
    \/ CycleRuns

SpecWindow == WinInit /\ [][WinNext]_vars

(* ------------------------------ properties ---------------------------- *)

AttemptIdx == 1..Len(attempts)

HandleAttempts == {k \in AttemptIdx : attempts[k].func = "handle"}

Ended == pc \in {"returned", "threw"}

AllFailed == \A k \in AttemptIdx : attempts[k].conf # "success"

\* C1: when the closure returns a valid handle on the first attempt and its
\* confirmation resolves with success status before the timeout, withRetry
\* returns that receipt, totalTransactions has grown by exactly 1 and delay
\* was called 0 times.
C1_FirstAttemptSuccess ==
    (Len(attempts) = 1 /\ attempts[1].func = "handle"
                       /\ attempts[1].conf = "success")
    => /\ pc = "returned"
       /\ result = Receipt(1, attempts[1].hash)
       /\ totalTransactions = txAtCall + 1
       /\ delays = << >>

C1_Witness ==
    /\ pc = "returned"
    /\ Len(attempts) = 1
    /\ attempts[1].conf = "success"
    /\ result.status = 1

\* C2: when the first attempt's confirmation wait loses the race to the
\* timeout and the second attempt's confirmation resolves with success
\* status, withRetry returns the second attempt's receipt and
\* totalTransactions has grown by exactly 2.
C2_TimeoutThenSuccess ==
    (Len(attempts) = 2 /\ attempts[1].conf = "timeout"
                       /\ attempts[2].conf = "success")
    => /\ pc = "returned"
       /\ result = Receipt(1, attempts[2].hash)
       /\ attempts[2].hash # attempts[1].hash
       /\ totalTransactions = txAtCall + 2

C2_Witness ==
    /\ pc = "returned"
    /\ Len(attempts) = 2
    /\ attempts[1].conf = "timeout"
    /\ attempts[2].conf = "success"
    /\ result.hash = 2

\* C3: when the closure throws a precondition failure on every invocation,
\* withRetry invokes it exactly once, never increments totalTransactions and
\* fails with that same error; it does not retry the closure with a higher
\* gas quote.
C3_PreconditionInvokedOnce ==
    (\A k \in AttemptIdx :
        /\ attempts[k].gas \in {"ok", "pending"}
        /\ attempts[k].func \in {"none", "PreconditionFailure"})
    => /\ Cardinality({k \in AttemptIdx :
                          attempts[k].func = "PreconditionFailure"}) <= 1
       /\ totalTransactions = txAtCall
       /\ (pc = "threw" => error.kind = "PreconditionFailure")

\* C4: during one withRetry call totalTransactions grows by exactly the
\* number of attempts in which the closure returned a handle carrying a hash:
\* one increment per such attempt and none for an attempt that failed in gas
\* estimation, in which the closure threw, or in which the closure returned
\* no valid handle.
C4_CountsHandlesOnly ==
    /\ totalTransactions = txAtCall + Cardinality(HandleAttempts)
    /\ \A k \in AttemptIdx :
         (attempts[k].gas = "fail" \/ attempts[k].func \in FuncErrors
                                   \/ attempts[k].func = "null")
         => k \notin HandleAttempts /\ attempts[k].hash = NoHash
    /\ \A k \in HandleAttempts : attempts[k].hash # NoHash

C4_Witness ==
    /\ pc = "returned"
    /\ Len(attempts) = 3
    /\ attempts[1].gas = "fail"
    /\ attempts[2].func = "null"
    /\ attempts[3].func = "handle"
    /\ totalTransactions = txAtCall + 1

\* C5: when every attempt fails and maxRetries >= 1, withRetry makes exactly
\* maxRetries attempts and then fails with the error observed in the last
\* attempt; it never returns normally in that case.
C5_ExhaustedThrowsLastError ==
    /\ Len(attempts) <= maxRetries
    /\ (Ended /\ maxRetries >= 1 /\ AllFailed)
       => /\ pc = "threw"
          /\ Len(attempts) = maxRetries
          /\ error.kind # "none"
          /\ error = Err(Last(attempts).error, maxRetries - 1)

C5_Witness ==
    /\ pc = "threw"
    /\ maxRetries = 3
    /\ attempts[1].error = "ConfirmationTimeout"
    /\ attempts[2].error = "PreconditionFailure"
    /\ error = Err("OnChainFailure", 2)

\* C6: after failed attempt n (0-based) with attempts remaining, withRetry
\* sleeps initialDelayMs*(n+1) before attempt n+1, which requests its gas
\* quote with index n+1; after the last failed attempt no sleep happens, so a
\* fully failed call sleeps exactly maxRetries-1 times.
C6_LinearBackoff ==
    /\ \A k \in 1..Len(delays) :
         /\ delays[k] = initialDelayMs * k
         /\ attempts[k].error # "none"
    /\ \A k \in AttemptIdx : attempts[k].gasIndex = k - 1
    /\ Len(delays) = IF pc = "delay" THEN Len(attempts)
                     ELSE IF attempts = << >> THEN 0
                     ELSE Len(attempts) - 1
    /\ (pc = "threw" => Len(delays) = maxRetries - 1)

C6_Witness ==
    /\ pc = "threw"
    /\ maxRetries = 3
    /\ delays = <<initialDelayMs, 2 * initialDelayMs>>
    /\ attempts[3].gasIndex = 2

\* C7: withRetry returns a value only for a receipt whose status indicates
\* success; a receipt with status 0, or an absent receipt, makes the attempt
\* a failed one, and the next attempt invokes the closure again to submit a
\* new transaction instead of waiting again on the old handle.
C7_ReturnsOnlySuccess ==
    /\ (pc = "returned" /\ result # NullResult)
       => /\ result = Receipt(1, Last(attempts).hash)
          /\ Last(attempts).conf = "success"
    /\ (pc = "returned" /\ result = NullResult) => attempts = << >>
    /\ \A k \in AttemptIdx :
         attempts[k].conf \in {"reverted", "noreceipt"}
         => /\ attempts[k].error \in {"OnChainFailure", "DidNotConfirm"}
            /\ (k = Len(attempts) => pc \in {"delay", "threw"})
            /\ \A m \in HandleAttempts :
                 m > k => attempts[m].hash # attempts[k].hash
    /\ pc = "race"
       => /\ Last(attempts).func = "handle"
          /\ Last(attempts).conf = "none"
          /\ tx.hash = Last(attempts).hash
          /\ \A k \in 1..(Len(attempts) - 1) : attempts[k].hash # tx.hash

C7_Witness ==
    /\ pc = "race"
    /\ Len(attempts) = 3
    /\ attempts[1].conf = "reverted"
    /\ attempts[2].conf = "noreceipt"
    /\ tx.hash = 3

\* C8: when the closure yields no valid transaction handle, withRetry fails
\* immediately without further attempts, and the error it surfaces is the
\* closure's own error, not an error made up by withRetry.
C8_NoHandleFailsImmediately ==
    \A k \in AttemptIdx :
        attempts[k].func = "null"
        => /\ k = Len(attempts)
           /\ pc = "threw"
           /\ error.kind # "NoValidTransactionObject"

\* C9: when getGasPrice fails in attempt n, that attempt counts as failed:
\* the closure is not invoked in it, totalTransactions is unchanged by it,
\* and the call backs off and retries if attempts remain, or fails with the
\* estimation error if it was the last attempt.
C9_GasFailureIsAttemptFailure ==
    /\ [](\A k \in AttemptIdx :
            attempts[k].gas = "fail"
            => /\ attempts[k].func = "none"
               /\ attempts[k].hash = NoHash
               /\ attempts[k].error = "FeeDataError"
               /\ (k < maxRetries
                   => \/ Len(attempts) > k
                      \/ pc = "delay" /\ Len(delays) = k)
               /\ (k = maxRetries
                   => pc = "threw" /\ error = Err("FeeDataError", k - 1)))
    /\ [][(pc = "getFeeData" /\ pc' \in {"delay", "threw"})
          => (totalTransactions' = totalTransactions /\ chain' = chain)]_vars

C9_Witness ==
    /\ pc = "threw"
    /\ maxRetries = 2
    /\ attempts[1].gas = "fail"
    /\ attempts[2].gas = "fail"
    /\ totalTransactions = txAtCall

\* C10: for every attempt index n >= 0 the buffer multiplier 5 + n is
\* non-decreasing in n, and for every fee data the network may return,
\* absent or zero fee fields included, every field of the returned quote is
\* a strictly positive integer.
C10_QuotePositive ==
    /\ \A k \in AttemptIdx :
         k > 1 => Buffer(attempts[k].gasIndex) >= Buffer(attempts[k - 1].gasIndex)
    /\ gasOptions # NoQuote
       => \A f \in DOMAIN gasOptions :
            gasOptions[f] \in Int /\ gasOptions[f] > 0

C10_Witness ==
    /\ pc = "func"
    /\ i = 2
    /\ gasOptions = [gasPrice |-> 7 * DefaultGasPrice]

EIPShape == {"maxFeePerGas", "maxPriorityFeePerGas"}

LegacyShape == {"gasPrice"}

\* C11: every quote returned by getGasPrice has exactly one of the two
\* shapes: both maxFeePerGas and maxPriorityFeePerGas and no gasPrice, or
\* gasPrice alone; never both shapes and never neither.
C11_ExactlyOneShape ==
    pc = "gasDone"
    => /\ gasOptions # NoQuote
       /\ DOMAIN gasOptions \in {EIPShape, LegacyShape}
       /\ (DOMAIN gasOptions = EIPShape
           <=> (Truthy(feeDataIn.maxFeePerGas)
                /\ Truthy(feeDataIn.maxPriorityFeePerGas)))

C11_Witness ==
    /\ pc = "gasDone"
    /\ DOMAIN gasOptions = EIPShape
    /\ feeDataIn.gasPrice = MaxFee

\* the multiplier of the claim: 500 + 100n
Scale(n) == 500 + 100 * n

\* C12 as stated: whenever the fee data exposes the EIP-1559 fields,
\* getGasPrice(n) returns maxPriorityFeePerGas = trunc(priority * (500 +
\* 100n) / 100) and maxFeePerGas = trunc(baseFee * (500 + 100n) / 100) +
\* maxPriorityFeePerGas; otherwise gasPrice = trunc(legacy * (500 + 100n) /
\* 100).  Stated for fee data in which every field is present.
C12_AsStated ==
    (pc = "gasDone" /\ \A f \in DOMAIN feeDataIn : feeDataIn[f] # Null)
    => gasOptions =
         [maxPriorityFeePerGas |->
              (feeDataIn.maxPriorityFeePerGas * Scale(i)) \div 100,
          maxFeePerGas |->
              (feeDataIn.lastBaseFeePerGas * Scale(i)) \div 100
              + (feeDataIn.maxPriorityFeePerGas * Scale(i)) \div 100]

\* C12 (amended): a fee field that is absent or zero counts as not exposed.
\* When maxFeePerGas and maxPriorityFeePerGas are both present and non-zero,
\* the quote is maxPriorityFeePerGas = trunc(priority * (500 + 100n) / 100)
\* and maxFeePerGas = trunc(baseFee * (500 + 100n) / 100) +
\* maxPriorityFeePerGas, where baseFee is lastBaseFeePerGas, or 1 gwei when
\* that is absent or zero; otherwise the quote is gasPrice = trunc(legacy *
\* (500 + 100n) / 100), where legacy is gasPrice, or 20 gwei when that is
\* absent or zero.  Multiplication comes before division.
C12_ScaledQuote ==
    pc = "gasDone"
    => LET exposed == /\ feeDataIn.maxFeePerGas > 0
                      /\ feeDataIn.maxPriorityFeePerGas > 0
           base == IF feeDataIn.lastBaseFeePerGas > 0
                   THEN feeDataIn.lastBaseFeePerGas ELSE DefaultBaseFee
           legacy == IF feeDataIn.gasPrice > 0
                     THEN feeDataIn.gasPrice ELSE DefaultGasPrice
           priority == (feeDataIn.maxPriorityFeePerGas * Scale(i)) \div 100
       IN  IF exposed
           THEN gasOptions =
                  [maxPriorityFeePerGas |-> priority,
                   maxFeePerGas |-> (base * Scale(i)) \div 100 + priority]
           ELSE gasOptions = [gasPrice |-> (legacy * Scale(i)) \div 100]

C12_Witness ==
    /\ pc = "gasDone"
    /\ i = 1
    /\ feeDataIn.maxFeePerGas = 1
    /\ feeDataIn.maxPriorityFeePerGas = MaxFee
    /\ feeDataIn.lastBaseFeePerGas = MaxFee
    /\ gasOptions.maxFeePerGas = 2 * ((MaxFee * 600) \div 100)

\* C13: when the fee-data read fails, getGasPrice fails with that error and
\* returns no quote; no quote built from a default price is handed to the
\* caller in place of the failed read.
C13_FailedReadNoQuote ==
    /\ error.kind = "FeeDataError" => (pc = "gasThrew" /\ gasOptions = NoQuote)
    /\ pc = "gasDone" => error = NoError

C13_Witness ==
    /\ pc = "gasThrew"
    /\ error = Err("FeeDataError", 1)
    /\ gasOptions = NoQuote

BalancesKnown == rbPc \in {"swapXrp", "swapToken", "done"}

XRPLow == walletBalances["XRP"] < REBALANCE_THRESHOLDS["XRP"]

\* C14: checkAndRebalance never throws or rejects to its caller: for every
\* combination of failing balance reads, failing gas estimation, failing
\* swap closure and exhausted withRetry, the call completes normally.
C14_NeverThrows ==
    /\ rbPc # "threw"
    /\ rbPc # "done" => ENABLED RbNext
    /\ (rbPc \in {"swapXrp", "swapToken"} /\ pc # "idle") => Len(rbSwaps) >= 1

C14_Witness ==
    /\ rbPc = "done"
    /\ readFailed = {"XRP", "RIBBIT"}
    /\ Len(attempts) = 3
    /\ attempts[1].gas = "fail"
    /\ attempts[2].func = "PreconditionFailure"
    /\ error = Err("ConfirmationTimeout", 2)

\* C15: when the XRP balance is below its threshold, checkAndRebalance takes
\* as donor the first token, in the configured token order, whose balance is
\* at least double that token's own rebalance threshold, and swaps 5% of
\* that token for XRP; a token below double its own threshold is never used
\* as donor.  Stated for wallets that hold no WXRP, the one token without a
\* threshold of its own.
C15_DonorByOwnThreshold ==
    (BalancesKnown /\ XRPLow /\ walletBalances["WXRP"] = 0)
    => LET own == {k \in 1..Len(TokenOrder) :
                      /\ ~SkipDonorOwnThreshold(walletBalances, TokenOrder[k])
                      /\ walletBalances[TokenOrder[k]] > 0}
       IN  IF own = {}
           THEN rbSwaps = << >>
           ELSE /\ rbSwaps # << >>
                /\ rbSwaps[1] =
                     [from |-> TokenOrder[MinOf(own)], to |-> "XRP",
                      amount |->
                          ToFixed4(walletBalances[TokenOrder[MinOf(own)]], 5)]

\* C16: one call of checkAndRebalance starts at most one corrective swap,
\* that is at most one withRetry call, for every combination of balances and
\* whatever the outcome of that swap; when XRP is below its threshold the
\* call never goes on to swap XRP into a secondary token.
C16_AtMostOneSwap ==
    /\ Len(rbSwaps) <= 1
    /\ pc # "idle" => Len(rbSwaps) = 1
    /\ (BalancesKnown /\ XRPLow)
       => \A k \in 1..Len(rbSwaps) :
            rbSwaps[k].to = "XRP" /\ rbSwaps[k].from # "XRP"

C16_Witness ==
    /\ rbPc = "done"
    /\ XRPLow
    /\ walletBalances["WXRP"] = 2 * REBALANCE_THRESHOLDS["XRP"]
    /\ walletBalances["RISE"] = 2 * REBALANCE_THRESHOLDS["XRP"]
    /\ walletBalances["RIBBIT"] = 0
    /\ Len(rbSwaps) = 1
    /\ result.kind = "receipt"
    /\ rebalances = 1

\* C17: when XRP is at or above its threshold, checkAndRebalance considers
\* only the first secondary token, in configured order, that is under its
\* own threshold, and swaps 1% of XRP into it exactly when the XRP balance
\* is at least double the XRP threshold, a balance equal to double the
\* threshold included.
C17_SwapAtDoubleThreshold ==
    (BalancesKnown /\ ~XRPLow)
    => IF /\ UnderThreshold(walletBalances) # {}
          /\ walletBalances["XRP"] >= 2 * REBALANCE_THRESHOLDS["XRP"]
       THEN rbSwaps =
              <<[from |-> "XRP",
                 to |-> ThresholdOrder[MinOf(UnderThreshold(walletBalances))],
                 amount |-> ToFixed4(walletBalances["XRP"], 1)]>>
       ELSE rbSwaps = << >>

\* the outer attempt is between its selection and the end of its dispatch
Dispatching == schedPc \in {"calcAmount", "dispatch"}

\* C18: in every outer attempt checkAndRebalance is called before the action
\* is selected: no action is selected while the call runs, while the withRetry
\* call of a rebalance swap runs the scheduler is still waiting for it, and
\* the selected action is dispatched, and its closure invoked, only after the
\* checkAndRebalance call of the same attempt has ended
C18_RebalanceBeforeAction ==
    /\ schedPc = "rebalance" => action = "none"
    /\ rbPc \in {"call", "getWalletBalances", "swapXrp", "swapToken"}
         => schedPc = "rebalance"
    /\ (action # "none" \/ Dispatching) => rbPc = "done"
    /\ (schedPc = "dispatch" /\ attempts # << >>) => rbPc = "done"

\* C18 witness: the closure of the selected action has been invoked in an
\* outer attempt whose checkAndRebalance call made a swap
C18_Witness ==
    /\ schedPc = "dispatch"
    /\ rbPc = "done"
    /\ rbSwaps # << >>
    /\ attempts # << >>
    /\ attempts[1].func # "none"

\* C19: a wallet gets at most 3 outer attempts in a cycle; every failed
\* attempt has taken exactly one from retriesLeft; after the delay the next
\* attempt starts again with checkAndRebalance, and its selection is fresh:
\* every category can be selected, whatever the failed attempt had selected
C19_OuterRetries ==
    /\ outerAttempts <= OuterRetries
    /\ (schedPc = "rebalance" \/ Dispatching)
         => retriesLeft = OuterRetries - (outerAttempts - 1)
    /\ schedPc = "retryDelay"
         => /\ retriesLeft = OuterRetries - outerAttempts
            /\ retriesLeft > 0
            /\ failedAction # "none"
            /\ ENABLED (SchedRetryDelayResolves /\ rbPc' = "call")
    /\ (schedPc = "rebalance" /\ rbPc = "done")
         => \A k \in 1..Len(ActionOrder) :
               ENABLED (SchedSelect /\ action' = ActionOrder[k])

\* C19 witness: two outer attempts have failed, the second with a swap; the
\* third has run its rebalance check and can select another category
C19_Witness ==
    /\ schedPc = "rebalance"
    /\ rbPc = "done"
    /\ outerAttempts = 3
    /\ retriesLeft = 1
    /\ failedAction = "SWAP"
    /\ ENABLED (SchedSelect /\ action' = "RANDOM_SEND")

\* C20: a wallet whose outer retries ran out is left for the cycle, and a
\* sendAlert call about that wallet has been made
C20_ExhaustionAlerts ==
    \A w \in exhausted :
        /\ retriesLeft = 0 \/ walletIdx > w
        /\ \E k \in 1..Len(alerts) : alerts[k].wallet = w

\* the counters of the action categories, added up
StatsTotal ==
    stats.swaps + stats.addsLiquidity + stats.removesLiquidity
      + stats.sendsAndReceives + stats.randomSends + stats.customContractCalls

\* C25: a step that changes a category counter or the rebalances counter
\* follows a withRetry call that returned a receipt with status 1, and adds
\* one to the counter of that action only; a call that threw (failed,
\* reverted or timed out in its last attempt) leaves every counter as it was
C25_CountersAfterReceipt ==
    [][/\ (stats' # stats \/ rebalances' # rebalances)
            => /\ pc = "returned"
               /\ ReceiptSucceeded(result)
               /\ Last(attempts).conf = "success"
       /\ stats' # stats
            => /\ schedPc = "dispatch"
               /\ stats' = [stats EXCEPT ![CounterOf[action]] = @ + 1]
               /\ rebalances' = rebalances
       /\ rebalances' # rebalances
            => /\ rbPc \in {"swapXrp", "swapToken"}
               /\ rebalances' = rebalances + 1
               /\ stats' = stats
       /\ pc = "threw" => (stats' = stats /\ rebalances' = rebalances)]_vars

\* C25 witness: one action was counted, in a cycle that also counted a
\* rebalance and in which some transaction sent was not counted anywhere
C25_Witness ==
    /\ StatsTotal = 1
    /\ rebalances > 0
    /\ totalTransactions > 2
    /\ schedPc = "nextWallet"

\* the attempts whose confirmation wait was ended by the timer
TimedOut == {k \in AttemptIdx : attempts[k].conf = "timeout"}

\* C26: the transaction of a timed-out attempt is left on the chain as it
\* was sent: it is pending or has settled since, and while it is pending it
\* can still settle; an attempt made after it has sent a transaction of its
\* own, with another hash
C26_AbandonedNotCancelled ==
    \A k \in TimedOut :
        /\ attempts[k].hash \in 1..Len(chain)
        /\ chain[attempts[k].hash] \in {"pending", "success", "reverted"}
        /\ chain[attempts[k].hash] = "pending" => ENABLED AbandonedSettles
        /\ \A m \in HandleAttempts :
              m > k => /\ attempts[m].hash # attempts[k].hash
                       /\ attempts[m].hash \in 1..Len(chain)

\* C26 witness: the call returned the receipt of its second transaction and
\* the transaction of the timed-out first attempt has confirmed as well
C26_Witness ==
    /\ pc = "returned"
    /\ Len(attempts) = 2
    /\ attempts[1].conf = "timeout"
    /\ attempts[2].conf = "success"
    /\ chain[attempts[1].hash] = "success"
    /\ chain[attempts[2].hash] = "success"
    /\ attempts[1].hash # attempts[2].hash
    /\ totalTransactions = txAtCall + 2

\* the category whose interval [sum of earlier weights, that sum + own
\* weight) contains the draw r
IntervalCategory(r) ==
    WeightOrder[CHOOSE k \in 1..Len(WeightOrder) :
                    SumWeights(k - 1) <= r /\ r < SumWeights(k)]

\* C27: for every integer draw r in 0..totalWeight-1 the subtract-and-walk
\* selection returns the category whose cumulative interval contains r, so
\* each category is returned for exactly as many draws as its weight
C27_ProportionalSelection ==
    calcPc = "selectDone" => selected = IntervalCategory(calcIn.x)

FailedBeforeSubmitting(kinds) ==
    /\ exPc \in {"threw", "left"}
    /\ exError \in kinds
    /\ submitted = << >>

\* C23: every confirmation wait during a withRetry call is bounded by the
\* timeout race: wherever a confirmation is awaited, by withRetry or by the
\* executor it invoked, the timer can end the wait
C23_EveryWaitBounded ==
    (pc = "race" \/ exPc \in WaitStates) => ENABLED TimeoutWins

\* C29: performRemoveLiquidity burns trunc(balance * percentage / 100) LP
\* tokens, 500,000 of 1,000,000 at 50%; with a balance of 0, a percentage of
\* 0 or an amount of 0 it fails before it submits any transaction
C29_RemoveAmount ==
    (executor = "performRemoveLiquidity" /\ exBalance # Null) =>
        LET amount == (exBalance * exArgs.percentage) \div 100
        IN  /\ (exBalance = 0 \/ exArgs.percentage = 0 \/ amount = 0) =>
                  FailedBeforeSubmitting({"NoLpTokens", "ZeroAmount"})
            /\ amount > 0 =>
                  /\ exAmount = amount
                  /\ exError \notin {"NoLpTokens", "ZeroAmount"}
            /\ (exBalance = 1000000 /\ exArgs.percentage = 50) =>
                  exAmount = 500000

C29_Witness ==
    /\ executor = "performRemoveLiquidity"
    /\ exBalance = 1000000
    /\ exArgs.percentage = 50
    /\ exAmount = 500000
    /\ submitted = <<"approve", "removeLiquidity">>

\* C30: performSwap, performAddLiquidity, performSendAndReceive and
\* performRandomSend, when they find the balance of the wallet insufficient,
\* fail with the insufficient-balance error before they submit a transaction
C30_InsufficientBeforeSubmission ==
    (/\ executor \in Executors \ {"performRemoveLiquidity"}
     /\ \/ exBalance # Null /\ exArgs.amount * exArgs.count > exBalance
        \/ exXrp = "short") =>
        FailedBeforeSubmitting({"Insufficient"})

C30_Witness ==
    /\ executor = "performSendAndReceive"
    /\ exBalance # Null
    /\ exArgs.amount * exArgs.count > exBalance
    /\ exPc = "left"
    /\ error.kind = "PreconditionFailure"
    /\ submitted = << >>


\* a withRetry call or a checkAndRebalance call is under way
CallUnderWay ==
    \/ pc \in {"call", "getFeeData", "func", "race", "delay"}
    \/ rbPc \in {"call", "getWalletBalances", "swapXrp", "swapToken"}

C24_SigintFlushes ==
    [][(schedPc' = "exited" /\ schedPc # "exited") =>
          /\ stateSaves' = stateSaves + 1
          /\ Len(alerts') = Len(alerts) + 1
          /\ walletIdx' = walletIdx]_vars


\* the kinds of the transactions the executor submitted
SubmittedKinds == {submitted[k] : k \in 1..Len(submitted)}

MainKinds == {"swap", "addLiquidity", "removeLiquidity"}

\* the executor read an allowance below the amount it is about to move
AllowanceShort == exAllowance # Null /\ exAllowance < exAmount

\* C31: with an allowance below the amount the executor submits an approval
\* and submits the main transaction only after the approval confirmed; with
\* an allowance that suffices it submits no approval
C31_ApprovalBeforeMain ==
    /\ (exAllowance # Null /\ ~AllowanceShort) => "approve" \notin SubmittedKinds
    /\ (AllowanceShort /\ exError = "none" /\ exPc # "approveSend") =>
           (submitted # << >> /\ submitted[1] = "approve")
    /\ (AllowanceShort /\ SubmittedKinds \cap MainKinds # {}) =>
           /\ submitted[1] = "approve"
           /\ 1 \in exConfirmed
           /\ Len(submitted) = 2

C31_Witness ==
    /\ AllowanceShort
    /\ submitted = <<"approve", "swap">>
    /\ 1 \in exConfirmed
    /\ exPc = "returned"

\* C32: an executor invoked through withRetry submits one transaction, so
\* the transactions sent to the network during the call are as many as
\* totalTransactions grew by
C32_OneTransactionPerInvocation ==
    exPc = "left" => Len(submitted) = totalTransactions - txAtCall


\* the withRetry call of the dispatched action threw the error of a failed
\* precondition or of a missing configuration
PreconditionFailed ==
    /\ schedPc = "dispatch"
    /\ pc = "threw"
    /\ error.kind = "PreconditionFailure"

\* C33: a precondition or configuration failure of the dispatched action
\* takes exactly one from retriesLeft in its outer attempt; the outer loop
\* goes on to the next attempt while retries are left, leaves the wallet
\* when they ran out, and makes no attempt beyond its budget
C33_PreconditionTakesOneSlot ==
    /\ [](PreconditionFailed =>
             /\ retriesLeft >= 1
             /\ outerAttempts <= OuterRetries
             /\ retriesLeft = OuterRetries - (outerAttempts - 1))
    /\ [][(PreconditionFailed /\ schedPc' # schedPc) =>
             /\ retriesLeft' = retriesLeft - 1
             /\ walletIdx' = walletIdx
             /\ outerAttempts' = outerAttempts
             /\ actionSuccessful' = FALSE
             /\ stats' = stats
             /\ schedPc' = IF retriesLeft > 1 THEN "retryDelay"
                           ELSE "nextWallet"]_vars

C33_Witness ==
    /\ PreconditionFailed
    /\ outerAttempts = OuterRetries
    /\ retriesLeft = 1
    /\ action = "ADD_LIQUIDITY"


C35_CountersBelowTotal == StatsTotal + rebalances <= totalTransactions

C35_Witness ==
    /\ StatsTotal = 1
    /\ rebalances = 1
    /\ totalTransactions = 2
    /\ schedPc = "nextWallet"


\* the chain settles a transaction whose confirmation nobody awaits
LateConfirmation ==
    \E h \in 1..Len(chain) :
        /\ Len(chain') = Len(chain)
        /\ chain'[h] # chain[h]
        /\ ~(pc = "race" /\ tx.hash = h)

\* the timer of an attempt fires after the race of that attempt was decided
LateTimer ==
    \E k \in AttemptIdx :
        /\ Len(attempts') = Len(attempts)
        /\ attempts[k].timer = "armed"
        /\ attempts[k].conf # "none"
        /\ attempts'[k].timer = "fired"

\* C36: an event that arrives after its race was decided (the timer after
\* the confirmation won, the confirmation of an abandoned transaction after
\* the timeout won) changes neither what withRetry returns or throws nor a
\* counter of activityStats
C36_LateEventsNoEffect ==
    [][(LateConfirmation \/ LateTimer) =>
          /\ pc' = pc
          /\ i' = i
          /\ result' = result
          /\ error' = error
          /\ delays' = delays
          /\ totalTransactions' = totalTransactions
          /\ stats' = stats
          /\ rebalances' = rebalances]_vars

C36_Witness ==
    /\ pc = "returned"
    /\ Len(attempts) = 2
    /\ attempts[1].conf = "timeout"
    /\ chain[attempts[1].hash] = "success"
    /\ attempts[2].conf = "success"
    /\ attempts[2].timer = "fired"
    /\ totalTransactions = 2

\* C37: withRetry called with maxRetries = 0 makes no attempt: no fee data
\* is read, the closure is not invoked, totalTransactions stays as it was,
\* and null is returned without an error
C37_ZeroRetriesReturnsNull ==
    (maxRetries = 0 /\ pc # "call") =>
        /\ pc = "returned"
        /\ result = NullResult
        /\ attempts = << >>
        /\ chain = << >>
        /\ delays = << >>
        /\ gasOptions = NoQuote
        /\ error = NoError
        /\ totalTransactions = txAtCall

C37_Witness ==
    /\ maxRetries = 0
    /\ pc = "returned"
    /\ result = NullResult
    /\ totalTransactions = txAtCall


\* C38: the 24-hour window is measured from the start of startRandomLoop: a
\* call of startRandomLoop processes every wallet at least once, also after
\* loadState restored a snapshot whose startTime is more than 24 hours old
C38_WindowFromLoopStart ==
    winPc = "finished" => cycles >= 1

====
